---------------------------- MODULE Spec2Model ----------------------------
(***************************************************************************)
(* State-machine model of the attocube ANC350 EPICS support:               *)
(*   - anc350AsynMotor.c : the asyn motor driver (motorAxisGet,            *)
(*     motorAxisSet, the motion commands, the poller task, the create      *)
(*     function's initial polls);                                          *)
(*   - devAnc350.c : the record-level device support (callbackLiRead,      *)
(*     callbackLoWrite).                                                   *)
(* Threads run the functions step by step; every step is one action        *)
(* disjunct.  The transport (asyn octet port), the controller behind it    *)
(* and the callers of the driver table are the environment: their choices  *)
(* are drawn with \E from the small sets of an environment record E.       *)
(*                                                                         *)
(* Telegrams are modelled at word granularity (one word = 4 bytes, Int32). *)
(* Byte counts are kept in bytes, always multiples of 4.                   *)
(***************************************************************************)
EXTENDS Integers, Sequences, FiniteSets, TLC

(***************************************************************************)
(* Program constants.                                                      *)
(***************************************************************************)
MID_MAX == 10000
COMMS_LIMIT == 200
AckLengthWithoutData == 24 - 4
ACK_LENGTH == 24
WORD == 4
HDR_WORDS == 5
GET_READ_MAX == 28
LI_BODY_RETRIES == 3
LO_BODY_RETRIES == 1
LEN_RETRIES == 1
MsgRetriesTwice == 1 + 1
MSG_RETRIES == 1
UC_SET == 0
UC_GET == 1
UC_ACK == 3
ID_ANC_STATUS == 1028
ID_ANC_AMPL == 1024
ID_ANC_REFCOUNTER == 1031
ID_ANC_COUNTER == 1045
ID_ANC_TARGET == 1032
ID_ANC_RUN_TARGET == 1037
ID_ANC_RUN_RELATIVE == 1048
ID_ANC_SGL_FWD == 1040
ID_ANC_SGL_BKWD == 1041
ID_ANC_CONT_FWD == 1038
ID_ANC_CONT_BKWD == 1039
ID_ANC_STOP_EN == 1104
ID_ANC_REGSPD_SELSP == 1354
ANC_STATUS_RUNNING == 1
ANC_STATUS_HUMP == 2
ANC_STATUS_REF_VALID == 2048
DEADBAND == 500

(***************************************************************************)
(* Bounds of the model.                                                    *)
(***************************************************************************)
\* operations (commands, polls, record callbacks) started in one run
MaxOps == 2
\* poll cycles, Home and Stop commands of the stopping specification
MaxStopOps == 4
\* poll cycles and Move commands of the moving specification
MaxMoveOps == 2
\* poll cycles and repeated creations of the creating specification
MaxCreateOps == 3
\* operations started in one run of the id-counter specification
MaxMidOps == 2
\* operations (record processings, poll cycles) of the specification of the
\* replies
MaxRetryOps == 2
\* poll cycles of the specification of two controllers
MaxTwoOps == 1
\* poll cycles of the comms specification: 5 gets of the create phase and 4
\* per cycle take the counter past COMMS_LIMIT
MaxCommsCycles == 50
\* how far below MID_MAX the id counters may start in the id specification
MidLead == 1
\* poll cycles and Home commands of the homing specification
MaxHomeOps == 2
\* poll cycles of the polling specification
MaxPollOps == 2
\* commands and record processings of the telegram specification
MaxWireOps == 1
\* the count of consecutive failed gets is kept exactly up to this
MaxFailures == 202
\* sequential id allocations of the allocation specification
MaxAllocs == 10001
\* poll cycles of the idle-poll specification
MaxSkipOps == 4
\* commands and poll cycles of the wake-event specification
MaxWakeOps == 4

(***************************************************************************)
(* Process structure.                                                      *)
(***************************************************************************)
Controllers == {1, 2}
AxisNos == {1, 2}
Axes == Controllers \X AxisNos
Pollers == {"poll1", "poll2"}
Threads == Pollers \cup {"cmd", "rec"}
PollerOf(c) == IF c = 1 THEN "poll1" ELSE "poll2"
CardOf(t) == IF t = "poll1" THEN 1 ELSE 2

Free == "free"
\* the content of a local the code reads before it wrote it: no word of a
\* telegram and no reading has this value
Uninit == -1000000
asynSuccess == "asynSuccess"
asynError == "asynError"
MOTOR_AXIS_OK == "MOTOR_AXIS_OK"
MOTOR_AXIS_ERROR == "MOTOR_AXIS_ERROR"
NoAxis == <<0, 0>>

VARIABLES
  mid,          \* anc350AsynMotor.c: static int mid
  midMutex,     \* holder of the motor driver's midMutexId, or Free
  devMid,       \* devAnc350.c: static int mid
  devMidMutex,  \* holder of the device support's midMutexId, or Free
  comms,        \* anc350AsynMotor.c: static int comms
  nAxes,        \* pDrv->nAxes of each controller
  pFirstDrv,    \* the cards of the controllers in the list pFirstDrv
  link,         \* environment: does the controller behind the port answer
  ax,           \* per axis: the motorAxis fields and the motor parameters
  axisMutex,    \* per axis: holder of pAxis->axisMutex, or Free
  pollEvent,    \* per controller: pDrv->pollEventId is signalled
  skips,        \* per axis: drvAnc350Task's skips[i], in units of 0.5
  rec,          \* the longin / longout record of the record thread
  pc,           \* per thread: position in the code
  loc,          \* per thread: the locals of the functions it is in
  stream,       \* per thread: the words arriving on its port for its request
  nOps          \* history: operations started so far

vars == <<mid, midMutex, devMid, devMidMutex, comms, nAxes, pFirstDrv, link, ax, axisMutex,
          pollEvent, skips, rec, pc, loc, stream, nOps>>


(***************************************************************************)
(* Data.                                                                   *)
(***************************************************************************)
\* a motorAxis after calloc, motorParam->create and motorAxisOpen
AxisInit ==
  [done |-> 0, homed |-> 0, homeSignal |-> 0, direction |-> 0,
   highLimit |-> 0, lowLimit |-> 0, commError |-> 0, problem |-> 0,
   position |-> 0, reference_search |-> 0, previous_position |-> 0,
   previous_direction |-> 0, reference_position |-> 0, amplitude |-> 0]

\* the locals of a thread outside every function
LocInit ==
  [axis |-> NoAxis, location |-> 0, setval |-> 0, localMid |-> 1,
   status |-> asynSuccess, nBytesRead |-> 0, telCorr |-> Uninit,
   telData |-> Uninit, match |-> 0, value |-> Uninit, tmp |-> 0,
   ret |-> MOTOR_AXIS_OK, rpc |-> "idle", req |-> <<>>,
   retries |-> 0, msgretries |-> 0, exch |-> 0,
   kind |-> "none", cmd |-> 0, posdir |-> 0, target |-> 0, cstatus |-> MOTOR_AXIS_ERROR,
   done0 |-> 0, sets |-> 0,
   \* history of the command or poll cycle: its calls of motorAxisSet that failed
   setFails |-> 0,
   i |-> 1, eventStatus |-> "none", done |-> 0, hump |-> 0, humpstatus |-> MOTOR_AXIS_OK,
   refpos |-> 0, phase |-> "task", polled |-> FALSE, setup |-> "none",
   hasParam |-> TRUE, raw |-> <<>>, tel |-> <<>>, fails |-> 0, ack |-> <<>>,
   \* history of the poll cycle: the status word read, the flag seen at line 966,
   \* the axis as it was when the cycle took the lock, the gets that failed
   stword |-> 0, searching |-> 0, ax0 |-> <<>>, cycleFails |-> 0,
   \* and the locations it has called motorAxisGet for
   gets |-> <<>>,
   \* history of drvAnc350Task: what its last cycle did with each axis
   prev |-> [n \in AxisNos |-> "none"],
   \* history of the callback: the outcome of the write, the bytes asked of
   \* readIt for the rest of the reply
   wrote |-> "none", asked |-> 0,
   \* and its calls of flushIt, of readIt for the length and for the rest
   flushes |-> 0, lenReads |-> 0, bodyReads |-> 0]

\* the longin / longout record before it is processed
RecInit == [udf |-> 1, val |-> 0, finished |-> 0]

Min(a, b) == IF a < b THEN a ELSE b

\* mid++; if (mid > 10000) mid = 1;
NextMidWrapEarly(m) == IF m + 1 >= MID_MAX THEN 1 ELSE m + 1
NextMidWrapZero(m) == IF m + 1 > MID_MAX THEN 0 ELSE m + 1
NextMid(m) == IF m + 1 > MID_MAX THEN 1 ELSE m + 1
DevNextMid(m) == IF m + 1 > MID_MAX THEN 1 ELSE m + 1

\* the id allocated just before id l by the same counter: the id of a reply
\* that is still on its way when the request with id l is written
StaleId(l) == IF l = 1 THEN MID_MAX ELSE l - 1

\* UcAckTelegram as the words of the byte stream:
\* length, opcode, address, index, correlationNumber, reason, data[0]
Ack(declared, address, index, corr, reason, data) ==
  <<declared, UC_ACK, address, index, corr, reason, data>>
CORR_WORD == 5
DATA_WORD == 7
ACK_WORDS == 7

\* UcGetTelegram / UcSetTelegram as built by the driver: the words written
GetTelegram(address, index, corr) ==
  <<HDR_WORDS * WORD - WORD, UC_GET, address, index, corr>>
SetTelegram(address, index, corr, value) ==
  <<(HDR_WORDS + 1) * WORD - WORD, UC_SET, address, index, corr, value>>

\* request.hdr.index = (pAxis->axis - 1), pAxis->axis being i + 1
AxisIndexOneBased(axis) == axis
AxisIndex(axis) == axis - 1

\* request.data[1] = 1 in motorAxisSet: UcSetTelegram has the one element
\* data[0], so the store goes to whatever the build has put behind the
\* request on the stack.  hit names it: nothing that is read again
\* ("none"), the parameter location or the parameter value, both of which
\* are copied into the request after the store.  (A store that hits a
\* pointer or the stack guard ends the process; a behaviour that ends is a
\* prefix of the behaviours here.)
STRAY_WORD == 1
StrayStores == {"none", "location", "value"}
SetRequest(hit, location, index, corr, value) ==
  SetTelegram(IF hit = "location" THEN STRAY_WORD ELSE location, index, corr,
              IF hit = "value" THEN STRAY_WORD ELSE value)

\* (epicsInt32)tel.ack.data[0] of the reply buffer
DeliveredUnlessReason(words) == IF words[6] # 0 THEN 0 ELSE words[DATA_WORD]
Delivered(words) == words[DATA_WORD]

(***************************************************************************)
(* The environment of one specification: what the transport, the           *)
(* controller and the mutex implementation may do.                         *)
(***************************************************************************)
DataFor(E, location) ==
  IF location = ID_ANC_STATUS THEN E.statusWords
  ELSE IF location = ID_ANC_COUNTER THEN E.positions
  ELSE IF location = ID_ANC_AMPL THEN E.amplitudes
  ELSE IF location = ID_ANC_REFCOUNTER THEN E.refs
  ELSE E.acks

\* what may arrive on the port after the request of thread t was written:
\* nothing (unless the controller of E always answers), the Ack of the
\* request, or the late Ack of the request before it
Arrivals(E, up, location, index, l) ==
  IF ~up THEN {<<>>}
  ELSE (IF "always" \in E.replies THEN {} ELSE {<<>>}) \cup
       { Ack(d, location, index, c, r, v) :
           d \in E.declared,
           c \in {x \in {l, StaleId(l)} : (x = l /\ "own" \in E.replies)
                                           \/ (x # l /\ "late" \in E.replies)},
           r \in E.reasons, v \in DataFor(E, location) }

\* what an uninitialised word of the reply buffer may hold when compared
\* with the id l, and when delivered as a value
JunkIds(l) == {l, StaleId(l)}
JunkData(E) == E.junk

(***************************************************************************)
(* Helpers for the updates.                                                *)
(***************************************************************************)
\* the record r with the fields of u written over it
Merge(r, u) == [f \in DOMAIN r \cup DOMAIN u |-> IF f \in DOMAIN u THEN u[f] ELSE r[f]]
Goto(t, label) == pc' = [pc EXCEPT ![t] = label]
SetLoc(t, u) == loc' = [loc EXCEPT ![t] = Merge(loc[t], u)]
SetAx(a, u) == ax' = [ax EXCEPT ![a] = Merge(ax[a], u)]

\* entry of motorAxisSet( pAxis, location, value, 0 ) / motorAxisGet( pAxis, location, &value, 0 )
CallSet(t, a, location, value, rpc) ==
  [axis |-> a, location |-> location, setval |-> value, rpc |-> rpc, localMid |-> 1,
   exch |-> 0, ack |-> <<>>, match |-> 0]
CallGet(t, a, location, rpc) ==
  [axis |-> a, location |-> location, rpc |-> rpc, localMid |-> 1, match |-> 0,
   nBytesRead |-> 0, telCorr |-> Uninit, telData |-> Uninit, exch |-> 0,
   ack |-> <<>>]

(***************************************************************************)
(* motorAxisSet: allocate an id, build the Set telegram, write it.         *)
(***************************************************************************)
\* a count of failures, kept exactly up to the cap of E if E has one: the
\* code compares comms with 200 only, so above a cap beyond 200 every
\* count behaves alike.  The id counter is kept in the same way in a run
\* with a cap: no reply arrives in such a run, so no id is compared.
Saturated(E, n) ==
  IF \E k \in E.countCap : n > k THEN CHOOSE k \in E.countCap : TRUE ELSE n

\* epicsMutexUnlock(midMutexId); after localMid = mid
MidMutexNotUnlocked(t) == t
MidMutexAfterUnlock(t) == Free

motorAxisSet(t, E) ==
  LET l == loc[t] IN
  \/ /\ pc[t] = "S_lock"
     /\ \E ok \in E.lockOK :
          IF ok
          THEN /\ midMutex = Free
               /\ midMutex' = t
               /\ Goto(t, "S_inc")
               /\ UNCHANGED loc
          ELSE /\ \E hit \in E.oob :
                    SetLoc(t, [req |-> SetRequest(hit, l.location, AxisIndex(l.axis[2]),
                                                  l.localMid, l.setval)])
               /\ Goto(t, "S_io")
               /\ UNCHANGED midMutex
     /\ UNCHANGED <<mid, devMid, devMidMutex, comms, nAxes, pFirstDrv, link, ax, axisMutex,
                    pollEvent, skips, rec, stream, nOps>>
  \/ /\ pc[t] = "S_inc"
     /\ mid' = Saturated(E, NextMid(mid))
     /\ midMutex' = MidMutexAfterUnlock(t)
     /\ \E hit \in E.oob :
          SetLoc(t, [localMid |-> mid',
                     req |-> SetRequest(hit, l.location, AxisIndex(l.axis[2]),
                                        mid', l.setval)])
     /\ Goto(t, "S_io")
     /\ UNCHANGED <<devMid, devMidMutex, comms, nAxes, pFirstDrv, link, ax, axisMutex,
                    pollEvent, skips, rec, stream, nOps>>
  \/ /\ pc[t] = "S_io"
     /\ \E wok \in E.writeOK :
          SetLoc(t, [ret |-> IF wok THEN MOTOR_AXIS_OK ELSE MOTOR_AXIS_ERROR,
                     req |-> <<>>, sets |-> l.sets + 1,
                     setFails |-> l.setFails + (IF wok THEN 0 ELSE 1),
                     exch |-> l.exch + 1])
     /\ Goto(t, l.rpc)
     /\ UNCHANGED <<mid, midMutex, devMid, devMidMutex, comms, nAxes, pFirstDrv, link, ax,
                    axisMutex, pollEvent, skips, rec, stream, nOps>>

(***************************************************************************)
(* motorAxisGet: allocate an id, build the Get telegram, writeRead, match  *)
(* the correlation number, count the comms failures.                       *)
(***************************************************************************)
\* the words pasynOctetSyncIO->writeRead may hand back of the arrival s
ReadCounts(E, s, maxBytes) ==
  IF E.short THEN 0 .. Min(Len(s), maxBytes \div WORD)
  ELSE (IF "prompt" \in E.replies THEN {} ELSE {0})
       \cup {Min(Len(s), maxBytes \div WORD)}

\* if (tel.ack.hdr.correlationNumber == localMid)
CorrMatches(corr, localMid) == corr = localMid

\* if (comms > 200)
CommsExceededAt200(c) == c >= COMMS_LIMIT
CommsExceeded(c) == c > COMMS_LIMIT

motorAxisGet(t, E) ==
  LET l == loc[t] IN
  \/ /\ pc[t] = "G_lock"
     /\ \E ok \in E.lockOK :
          IF ok
          THEN /\ midMutex = Free
               /\ midMutex' = t
               /\ Goto(t, "G_inc")
               /\ UNCHANGED loc
          ELSE /\ SetLoc(t, [req |-> GetTelegram(l.location, AxisIndex(l.axis[2]), l.localMid)])
               /\ Goto(t, "G_io")
               /\ UNCHANGED midMutex
     /\ UNCHANGED <<mid, devMid, devMidMutex, comms, nAxes, pFirstDrv, link, ax, axisMutex,
                    pollEvent, skips, rec, stream, nOps>>
  \/ /\ pc[t] = "G_inc"
     /\ mid' = Saturated(E, NextMid(mid))
     /\ midMutex' = MidMutexAfterUnlock(t)
     /\ SetLoc(t, [localMid |-> mid',
                   req |-> GetTelegram(l.location, AxisIndex(l.axis[2]), mid')])
     /\ Goto(t, "G_io")
     /\ UNCHANGED <<devMid, devMidMutex, comms, nAxes, pFirstDrv, link, ax, axisMutex,
                    pollEvent, skips, rec, stream, nOps>>
  \/ /\ pc[t] = "G_io"
     /\ \E wok \in E.writeOK :
        \E s \in (IF wok THEN Arrivals(E, link[l.axis[1]], l.location,
                                       AxisIndex(l.axis[2]), l.localMid)
                  ELSE {<<>>}) :
        \E n \in ReadCounts(E, s, GET_READ_MAX) :
          /\ stream' = [stream EXCEPT ![t] = s]
          /\ SetLoc(t, [status |-> IF wok /\ n > 0 THEN asynSuccess ELSE asynError,
                        nBytesRead |-> n * WORD,
                        telCorr |-> IF n >= CORR_WORD THEN s[CORR_WORD] ELSE Uninit,
                        telData |-> IF n >= DATA_WORD THEN Delivered(s) ELSE Uninit,
                        req |-> <<>>, exch |-> l.exch + 1, ack |-> s])
     /\ Goto(t, "G_chk")
     /\ UNCHANGED <<mid, midMutex, devMid, devMidMutex, comms, nAxes, pFirstDrv, link, ax,
                    axisMutex, pollEvent, skips, rec, nOps>>
  \/ /\ pc[t] = "G_chk"
     /\ IF l.status = asynSuccess
        THEN \E corr \in (IF l.telCorr = Uninit THEN JunkIds(l.localMid) ELSE {l.telCorr}) :
             \E data \in (IF l.telData = Uninit THEN JunkData(E) ELSE {l.telData}) :
               IF CorrMatches(corr, l.localMid)
               THEN SetLoc(t, [match |-> 1, value |-> data])
               ELSE SetLoc(t, [status |-> asynError, tmp |-> comms])
        ELSE SetLoc(t, [tmp |-> comms])
     /\ Goto(t, "G_cnt")
     /\ UNCHANGED <<mid, midMutex, devMid, devMidMutex, comms, nAxes, pFirstDrv, link, ax,
                    axisMutex, pollEvent, skips, rec, stream, nOps>>
  \/ /\ pc[t] = "G_cnt"
     /\ IF l.status # asynSuccess
        THEN /\ comms' = Saturated(E, l.tmp + 1)
             /\ IF CommsExceeded(comms')
                THEN SetAx(l.axis, [commError |-> 1])
                ELSE UNCHANGED ax
             /\ SetLoc(t, [ret |-> MOTOR_AXIS_ERROR, tmp |-> 0, fails |-> Saturated(E, l.fails + 1)])
        ELSE /\ comms' = 0
             /\ SetAx(l.axis, [commError |-> 0])
             /\ SetLoc(t, [ret |-> MOTOR_AXIS_OK, tmp |-> 0, fails |-> 0])
     /\ stream' = [stream EXCEPT ![t] = <<>>]
     /\ Goto(t, l.rpc)
     /\ UNCHANGED <<mid, midMutex, devMid, devMidMutex, nAxes, pFirstDrv, link,
                    axisMutex, pollEvent, skips, rec, nOps>>

(***************************************************************************)
(* The motion commands, called by the motor record's thread ("cmd").       *)
(* A command may be called once the controller of its axis was created.    *)
(***************************************************************************)
Created(c) == loc[PollerOf(c)].phase = "task"

UsedAxes == {a \in Axes : a[2] <= nAxes[a[1]]}

\* the caller picks the next command and its arguments
CommandCall(t, E) ==
  /\ pc[t] = "idle"
  /\ nOps < E.maxOps
  /\ E.once => loc[t].kind = "none"
  /\ \E a \in UsedAxes, k \in E.commands :
       /\ Created(a[1])
       /\ SetLoc(t, Merge(
            [LocInit EXCEPT !.axis = a, !.kind = k.kind, !.done0 = ax[a].done,
                            !.target = k.arg],
            IF k.kind = "stop" THEN [rpc |-> "idle"]
            ELSE CallSet(t, a, ID_ANC_STOP_EN, 1,
                         CASE k.kind = "move" -> "M_1"
                           [] k.kind = "rmove" -> "M_1"
                           [] k.kind = "home" -> "H_1"
                           [] OTHER -> "J_1")))
       /\ Goto(t, IF k.kind = "stop" THEN "T_0" ELSE "S_lock")
  /\ nOps' = nOps + 1
  /\ UNCHANGED <<mid, midMutex, devMid, devMidMutex, comms, nAxes, pFirstDrv, link, ax,
                 axisMutex, pollEvent, skips, rec, stream>>

\* the frame of a step of a command that touches only its locals and pc
CmdLocalFrame ==
  UNCHANGED <<mid, midMutex, devMid, devMidMutex, comms, nAxes, pFirstDrv, link, ax,
              axisMutex, pollEvent, skips, rec, stream, nOps>>

\* epicsMutexLock( pAxis->axisMutex ) == epicsMutexLockOK
LockAxis(t, a) == axisMutex[a] = Free /\ axisMutex' = [axisMutex EXCEPT ![a] = t]
UnlockAxis(t, a) == axisMutex' = [axisMutex EXCEPT ![a] = Free]

\* epicsEventSignal(pAxis->pDrv->pollEventId); return status;
SignalAndReturn(t) ==
  /\ pollEvent' = [pollEvent EXCEPT ![loc[t].axis[1]] = TRUE]
  \* the locals of the command are gone when it has returned
  /\ loc' = [loc EXCEPT ![t] = [LocInit EXCEPT !.axis = loc[t].axis,
                                                !.kind = loc[t].kind,
                                                !.ret = loc[t].cstatus]]
  /\ Goto(t, "idle")
  /\ UNCHANGED <<mid, midMutex, devMid, devMidMutex, comms, nAxes, pFirstDrv, link, ax,
                 axisMutex, skips, rec, stream, nOps>>

\* imove = (int)(position + pAxis->reference_position)
MoveTarget(relative, position, reference_position) == position + reference_position

motorAxisMove(t, E) ==
  LET l == loc[t]
      a == l.axis IN
  \/ /\ pc[t] = "M_1"
     /\ SetLoc(t, Merge([cstatus |-> l.ret],
                        CallSet(t, a, ID_ANC_REGSPD_SELSP, 1, "M_2")))
     /\ Goto(t, "S_lock")
     /\ CmdLocalFrame
  \/ /\ pc[t] = "M_2"
     /\ SetLoc(t, [cstatus |-> l.ret,
                   cmd |-> IF l.kind = "rmove" THEN ID_ANC_RUN_RELATIVE ELSE ID_ANC_RUN_TARGET,
                   posdir |-> IF l.target >= 0 THEN 1 ELSE 0,
                   target |-> MoveTarget(l.kind = "rmove", l.target, ax[a].reference_position)])
     /\ Goto(t, "M_lock")
     /\ CmdLocalFrame
  \/ /\ pc[t] = "M_lock"
     /\ LockAxis(t, a)
     /\ SetLoc(t, CallSet(t, a, ID_ANC_TARGET, l.target, "M_3"))
     /\ Goto(t, "S_lock")
     /\ UNCHANGED <<mid, midMutex, devMid, devMidMutex, comms, nAxes, pFirstDrv, link, ax,
                    pollEvent, skips, rec, stream, nOps>>
  \/ /\ pc[t] = "M_3"
     /\ SetLoc(t, Merge([cstatus |-> l.ret], CallSet(t, a, l.cmd, 1, "M_4")))
     /\ Goto(t, "S_lock")
     /\ CmdLocalFrame
  \/ /\ pc[t] = "M_4"
     /\ SetLoc(t, [cstatus |-> l.ret])
     /\ SetAx(a, [direction |-> l.posdir, done |-> 0])
     /\ UnlockAxis(t, a)
     /\ Goto(t, "M_sig")
     /\ UNCHANGED <<mid, midMutex, devMid, devMidMutex, comms, nAxes, pFirstDrv, link,
                    pollEvent, skips, rec, stream, nOps>>
  \/ /\ pc[t] = "M_sig"
     /\ SignalAndReturn(t)

motorAxisHome(t, E) ==
  LET l == loc[t]
      a == l.axis IN
  \/ /\ pc[t] = "H_1"
     /\ SetLoc(t, Merge([cstatus |-> l.ret],
                        CallSet(t, a, ID_ANC_REGSPD_SELSP, 1, "H_2")))
     /\ Goto(t, "S_lock")
     /\ CmdLocalFrame
  \/ /\ pc[t] = "H_2"
     /\ LockAxis(t, a)
     /\ SetLoc(t, Merge([cstatus |-> l.ret, posdir |-> IF l.target > 0 THEN 1 ELSE 0],
                        CallSet(t, a, IF l.target > 0 THEN ID_ANC_CONT_FWD
                                      ELSE ID_ANC_CONT_BKWD, 1, "H_3")))
     /\ Goto(t, "S_lock")
     /\ UNCHANGED <<mid, midMutex, devMid, devMidMutex, comms, nAxes, pFirstDrv, link, ax,
                    pollEvent, skips, rec, stream, nOps>>
  \/ /\ pc[t] = "H_3"
     /\ SetLoc(t, [cstatus |-> l.ret])
     /\ SetAx(a, [direction |-> l.posdir, done |-> 0])
     /\ UnlockAxis(t, a)
     /\ Goto(t, "H_ref")
     /\ UNCHANGED <<mid, midMutex, devMid, devMidMutex, comms, nAxes, pFirstDrv, link,
                    pollEvent, skips, rec, stream, nOps>>
  \/ /\ pc[t] = "H_ref"
     /\ SetAx(a, [reference_search |-> 1])
     /\ Goto(t, "H_sig")
     /\ UNCHANGED <<mid, midMutex, devMid, devMidMutex, comms, nAxes, pFirstDrv, link, loc,
                    axisMutex, pollEvent, skips, rec, stream, nOps>>
  \/ /\ pc[t] = "H_sig"
     /\ SignalAndReturn(t)

motorAxisVelocityMove(t, E) ==
  LET l == loc[t]
      a == l.axis IN
  \/ /\ pc[t] = "J_1"
     /\ SetLoc(t, Merge([cstatus |-> l.ret],
                        CallSet(t, a, ID_ANC_REGSPD_SELSP, 1, "J_2")))
     /\ Goto(t, "S_lock")
     /\ CmdLocalFrame
  \/ /\ pc[t] = "J_2"
     /\ LockAxis(t, a)
     /\ SetLoc(t, Merge([cstatus |-> l.ret, posdir |-> IF l.target > 0 THEN 1 ELSE 0],
                        CallSet(t, a, IF l.target > 0 THEN ID_ANC_CONT_FWD
                                      ELSE ID_ANC_CONT_BKWD, 1, "J_3")))
     /\ Goto(t, "S_lock")
     /\ UNCHANGED <<mid, midMutex, devMid, devMidMutex, comms, nAxes, pFirstDrv, link, ax,
                    pollEvent, skips, rec, stream, nOps>>
  \/ /\ pc[t] = "J_3"
     /\ SetLoc(t, [cstatus |-> l.ret])
     /\ SetAx(a, [direction |-> l.posdir, done |-> 0])
     /\ UnlockAxis(t, a)
     /\ Goto(t, "J_sig")
     /\ UNCHANGED <<mid, midMutex, devMid, devMidMutex, comms, nAxes, pFirstDrv, link,
                    pollEvent, skips, rec, stream, nOps>>
  \/ /\ pc[t] = "J_sig"
     /\ SignalAndReturn(t)

\* pAxis->reference_search = 0; in motorAxisStop, before the axis lock is taken
StopKeepsSearch(reference_search) == reference_search
StopClearsSearch(reference_search) == 0

motorAxisStop(t, E) ==
  LET l == loc[t]
      a == l.axis IN
  \/ /\ pc[t] = "T_0"
     /\ SetLoc(t, [cmd |-> IF ax[a].previous_direction = 1 THEN ID_ANC_SGL_FWD
                           ELSE ID_ANC_SGL_BKWD])
     /\ SetAx(a, [reference_search |-> StopClearsSearch(ax[a].reference_search)])
     /\ Goto(t, "T_lock")
     /\ UNCHANGED <<mid, midMutex, devMid, devMidMutex, comms, nAxes, pFirstDrv, link,
                    axisMutex, pollEvent, skips, rec, stream, nOps>>
  \/ /\ pc[t] = "T_lock"
     /\ LockAxis(t, a)
     /\ SetLoc(t, CallSet(t, a, l.cmd, 1, "T_1"))
     /\ Goto(t, "S_lock")
     /\ UNCHANGED <<mid, midMutex, devMid, devMidMutex, comms, nAxes, pFirstDrv, link, ax,
                    pollEvent, skips, rec, stream, nOps>>
  \/ /\ pc[t] = "T_1"
     /\ SetLoc(t, [cstatus |-> l.ret])
     /\ SetAx(a, [done |-> 1])
     /\ UnlockAxis(t, a)
     /\ Goto(t, "T_sig")
     /\ UNCHANGED <<mid, midMutex, devMid, devMidMutex, comms, nAxes, pFirstDrv, link,
                    pollEvent, skips, rec, stream, nOps>>
  \/ /\ pc[t] = "T_sig"
     /\ SignalAndReturn(t)

(***************************************************************************)
(* The status polls, run by the thread of a controller ("poll1", "poll2"): *)
(* first inside anc350AsynMotorCreate (phase "create"), then as            *)
(* drvAnc350Task (phase "task").                                           *)
(***************************************************************************)
\* (value & mask) != 0 for a one-bit mask
Bit(value, mask) == (value \div mask) % 2

\* the locals of drvAnc350GetAxisStatus are gone when its caller goes on
CycleOver ==
  [value |-> Uninit, humpstatus |-> MOTOR_AXIS_OK, stword |-> 0, searching |-> 0,
   ax0 |-> <<>>, cycleFails |-> 0, sets |-> 0, setFails |-> 0, polled |-> FALSE,
   gets |-> <<>>]

\* where drvAnc350GetAxisStatus returns to
AfterStatus(l) == IF l.phase = "create" THEN "C_next" ELSE "P_next"

PollFrame ==
  UNCHANGED <<mid, midMutex, devMid, devMidMutex, comms, nAxes, pFirstDrv, link,
              pollEvent, skips, rec, stream, nOps>>

drvAnc350GetAxisInitialStatus(t, E) ==
  LET l == loc[t]
      a == <<CardOf(t), l.i>> IN
  \/ /\ pc[t] = "I_lock"
     /\ LockAxis(t, a)
     /\ SetLoc(t, Merge([value |-> 0], CallGet(t, a, ID_ANC_STATUS, "I_st")))
     /\ Goto(t, "G_lock")
     /\ UNCHANGED ax
     /\ PollFrame
  \/ /\ pc[t] = "I_st"
     /\ SetAx(a, [homed |-> Bit(l.value, ANC_STATUS_REF_VALID),
                  homeSignal |-> Bit(l.value, ANC_STATUS_REF_VALID)])
     /\ UnlockAxis(t, a)
     /\ UNCHANGED loc
     /\ Goto(t, "A_lock")
     /\ PollFrame

\* the direction after a position reading
DirectionNoDeadband(position, previous_position, previous_direction) ==
  IF position - previous_position > 0 THEN 1
  ELSE IF position - previous_position < 0 THEN 0
  ELSE previous_direction
Direction(position, previous_position, previous_direction) ==
  IF position - previous_position > DEADBAND THEN 1
  ELSE IF position - previous_position < -DEADBAND THEN 0
  ELSE previous_direction

\* if (referenced == 0) ... else if (pAxis->reference_search == 1)
HomingCompleteAnyFlag(referenced, reference_search) == referenced # 0
HomingComplete(referenced, reference_search) ==
  referenced # 0 /\ reference_search = 1

\* motorAxisLowHardLimit as set by if (hump && (humpstatus == asynSuccess))
\* { if (direction == 1) ... 0 else ... 1 } else ... 0
LowLimitAnyDirection(limit, direction) == IF limit THEN 1 ELSE 0
LowLimit(limit, direction) == IF limit /\ direction # 1 THEN 1 ELSE 0

\* if (status == asynSuccess) after the get of ID_ANC_COUNTER
PositionReadAlways(status) == TRUE
PositionRead(status) == status = MOTOR_AXIS_OK

\* the locations drvAnc350GetAxisStatus reads, in the order of its calls of
\* motorAxisGet
PollGetsPositionFirst ==
  <<ID_ANC_COUNTER, ID_ANC_STATUS, ID_ANC_AMPL, ID_ANC_REFCOUNTER>>
PollGets == <<ID_ANC_STATUS, ID_ANC_AMPL, ID_ANC_REFCOUNTER, ID_ANC_COUNTER>>

\* the call of motorAxisGet number k of a poll
PollGet(t, a, l, k, rpc) ==
  Merge([gets |-> Append(l.gets, PollGets[k])], CallGet(t, a, PollGets[k], rpc))

drvAnc350GetAxisStatus(t, E) ==
  LET l == loc[t]
      a == <<CardOf(t), l.i>> IN
  \/ /\ pc[t] = "A_lock"
     /\ LockAxis(t, a)
     /\ SetLoc(t, Merge([value |-> Uninit, hump |-> 0, refpos |-> 0, sets |-> 0,
                         stword |-> 0, searching |-> 0, ax0 |-> ax[a],
                         cycleFails |-> 0],
                        PollGet(t, a, [gets |-> <<>>], 1, "A_st")))
     /\ Goto(t, "G_lock")
     /\ UNCHANGED ax
     /\ PollFrame
  \/ /\ pc[t] \in {"A_st", "A_st2"}
     /\ UNCHANGED axisMutex
     /\ PollFrame
     /\ IF pc[t] = "A_st2"
        THEN \* back from motorAxisSet( pAxis, ID_ANC_SGL_FWD, 1, 0 )
             /\ SetAx(a, [done |-> 1, homed |-> 1, homeSignal |-> 1])
             /\ SetLoc(t, PollGet(t, a, l, 1 + 1, "A_amp"))
             /\ Goto(t, "G_lock")
        ELSE IF l.ret = MOTOR_AXIS_OK
        THEN LET running == Bit(l.value, ANC_STATUS_RUNNING)
                 referenced == Bit(l.value, ANC_STATUS_REF_VALID)
                 hump == Bit(l.value, ANC_STATUS_HUMP)
                 doneNow == IF running = 0 THEN 1 ELSE 0
                 seen == [humpstatus |-> l.ret, hump |-> hump, stword |-> l.value,
                          searching |-> ax[a].reference_search] IN
             IF referenced = 0
             THEN /\ SetAx(a, [done |-> doneNow, homed |-> 0, homeSignal |-> 0])
                  /\ SetLoc(t, Merge(seen, PollGet(t, a, l, 1 + 1, "A_amp")))
                  /\ Goto(t, "G_lock")
             ELSE IF HomingComplete(referenced, ax[a].reference_search)
             THEN /\ SetAx(a, [done |-> doneNow, reference_search |-> 0])
                  /\ SetLoc(t, Merge(seen, CallSet(t, a, ID_ANC_SGL_FWD, 1, "A_st2")))
                  /\ Goto(t, "S_lock")
             ELSE /\ SetAx(a, [done |-> doneNow])
                  /\ SetLoc(t, Merge(seen, PollGet(t, a, l, 1 + 1, "A_amp")))
                  /\ Goto(t, "G_lock")
        ELSE /\ UNCHANGED ax
             /\ SetLoc(t, Merge([humpstatus |-> l.ret, cycleFails |-> l.cycleFails + 1],
                                PollGet(t, a, l, 1 + 1, "A_amp")))
             /\ Goto(t, "G_lock")
  \/ /\ pc[t] = "A_amp"
     /\ \E v \in (IF l.value = Uninit THEN JunkData(E) ELSE {l.value}) :
          SetAx(a, [amplitude |-> v])
     /\ SetLoc(t, Merge([cycleFails |-> l.cycleFails
                                           + (IF l.ret = MOTOR_AXIS_OK THEN 0 ELSE 1)],
                        PollGet(t, a, l, 1 + 1 + 1, "A_ref")))
     /\ Goto(t, "G_lock")
     /\ UNCHANGED axisMutex
     /\ PollFrame
  \/ /\ pc[t] = "A_ref"
     /\ SetLoc(t, Merge([refpos |-> IF l.ret = MOTOR_AXIS_OK THEN l.value
                                    ELSE ax[a].reference_position,
                         cycleFails |-> l.cycleFails
                                           + (IF l.ret = MOTOR_AXIS_OK THEN 0 ELSE 1)],
                        PollGet(t, a, l, Len(PollGets), "A_pos")))
     /\ Goto(t, "G_lock")
     /\ UNCHANGED <<ax, axisMutex>>
     /\ PollFrame
  \/ /\ pc[t] = "A_pos"
     /\ LET ok == PositionRead(l.ret)
            position == l.value - l.refpos
            direction == IF ok THEN Direction(position, ax[a].previous_position,
                                              ax[a].previous_direction)
                         ELSE 0
            limit == l.hump = 1 /\ l.humpstatus = MOTOR_AXIS_OK IN
        SetAx(a,
          [reference_position |-> IF ok THEN l.refpos ELSE ax[a].reference_position,
           direction |-> IF ok THEN direction ELSE ax[a].direction,
           previous_position |-> IF ok THEN position ELSE ax[a].previous_position,
           previous_direction |-> IF ok THEN direction ELSE ax[a].previous_direction,
           position |-> IF ok THEN position ELSE ax[a].position,
           highLimit |-> IF limit /\ direction = 1 THEN 1 ELSE 0,
           lowLimit |-> LowLimit(limit, direction),
           problem |-> 0])
     /\ UnlockAxis(t, a)
     /\ SetLoc(t, [hump |-> 0, refpos |-> 0, polled |-> TRUE,
                   cycleFails |-> l.cycleFails
                                     + (IF l.ret = MOTOR_AXIS_OK THEN 0 ELSE 1)])
     /\ Goto(t, AfterStatus(l))
     /\ PollFrame

\* skips[i] in units of 0.5: a poll sets it to 1.0, every cycle takes
\* factor = movingPollPeriod / idlePollPeriod = 0.5 off
SkipAfterPollLonger == 2 + 1
SKIP_AFTER_POLL == 2
SKIP_FACTOR == 1

\* the done flag drvAnc350Task decides with: 0 after an event ("one motor is
\* moving, so force an update for all"), else the cached motorAxisDone
ForcedDoneNever(eventStatus, cached) == cached
ForcedDone(eventStatus, cached) ==
  IF eventStatus = "epicsEventWaitOK" THEN 0 ELSE cached

\* status after motorAxisAsynConnect and the loop that sets up the axes
CreateStatusIgnoreAxes(connected, axesOK) ==
  IF connected THEN MOTOR_AXIS_OK ELSE MOTOR_AXIS_ERROR
CreateStatus(connected, axesOK) ==
  IF connected /\ axesOK THEN MOTOR_AXIS_OK ELSE MOTOR_AXIS_ERROR

\* for ( pDrv = pFirstDrv; pDrv != NULL && (pDrv->card != card); ... ): the
\* place in the list of the first controller with this card, 0 for NULL
FindCardNever(list, card) == 0
FindCard(list, card) ==
  IF \E k \in 1 .. Len(list) : list[k] = card
  THEN CHOOSE k \in 1 .. Len(list) :
         list[k] = card /\ \A j \in 1 .. k - 1 : list[j] # card
  ELSE 0

\* anc350AsynMotorCreate has returned for the controller of card c
Returned(c) == loc[PollerOf(c)].phase \in {"task", "failed"}

anc350AsynMotorCreate(t, E) ==
  LET l == loc[t]
      c == CardOf(t) IN
  \/ /\ pc[t] = "C_create"
     \* the startup script creates the controllers one after the other
     /\ \A d \in Controllers : (d < c /\ PollerOf(d) \in E.pollers) => Returned(d)
     /\ \E connected \in E.connectOK, axesOK \in E.axisOK :
          LET status == IF FindCard(pFirstDrv, c) = 0
                        THEN CreateStatus(connected, axesOK)
                        ELSE MOTOR_AXIS_ERROR
              setup == IF ~connected THEN "noconnect"
                       ELSE IF ~axesOK THEN "noaxis" ELSE "ok" IN
          IF status = MOTOR_AXIS_OK
          THEN /\ pFirstDrv' = Append(pFirstDrv, c)
               /\ SetLoc(t, [setup |-> setup])
               /\ Goto(t, "C_axis")
          ELSE /\ UNCHANGED pFirstDrv
               /\ SetLoc(t, [setup |-> setup, phase |-> "failed",
                             ret |-> MOTOR_AXIS_ERROR])
               /\ Goto(t, "C_failed")
     /\ UNCHANGED <<mid, midMutex, devMid, devMidMutex, comms, nAxes, link, ax,
                    axisMutex, pollEvent, skips, rec, stream, nOps>>
  \/ /\ pc[t] = "C_axis"
     /\ IF l.i <= nAxes[c]
        THEN /\ Goto(t, "I_lock")
             /\ UNCHANGED loc
        ELSE /\ Goto(t, "P_wait")
             /\ SetLoc(t, [phase |-> "task", i |-> 1])
     /\ UNCHANGED <<ax, axisMutex>>
     /\ PollFrame
  \/ /\ pc[t] = "C_next"
     /\ SetLoc(t, Merge(CycleOver, [i |-> l.i + 1]))
     /\ Goto(t, "C_axis")
     /\ UNCHANGED <<ax, axisMutex>>
     /\ PollFrame

\* while ( 1 ): the loop of drvAnc350Task has no exit, whatever the count
\* of failed gets
LoopGoesOnWhileHealthy(failures) == failures <= COMMS_LIMIT
LoopGoesOn(failures) == TRUE

drvAnc350Task(t, E) ==
  LET l == loc[t]
      c == CardOf(t)
      a == <<c, l.i>> IN
  \/ /\ pc[t] = "P_wait"
     /\ LoopGoesOn(comms)
     /\ ~E.endless => nOps < E.maxOps
     /\ nOps' = (IF E.endless THEN nOps ELSE nOps + 1)
     /\ pollEvent' = [pollEvent EXCEPT ![c] = FALSE]
     /\ SetLoc(t, [eventStatus |-> IF pollEvent[c] THEN "epicsEventWaitOK"
                                   ELSE "epicsEventWaitTimeout",
                   i |-> 1])
     /\ Goto(t, "P_axis")
     /\ UNCHANGED <<mid, midMutex, devMid, devMidMutex, comms, nAxes, pFirstDrv, link, ax,
                    axisMutex, skips, rec, stream>>
  \/ /\ pc[t] = "P_axis"
     /\ IF l.i > nAxes[c]
        THEN /\ Goto(t, "P_wait")
             /\ UNCHANGED loc
        ELSE /\ l.eventStatus # "epicsEventWaitOK" => axisMutex[a] = Free
             /\ LET done == ForcedDone(l.eventStatus, ax[a].done) IN
                IF skips[a] <= 0 \/ done = 0
                THEN /\ Goto(t, "A_lock")
                     /\ SetLoc(t, [done |-> done])
                ELSE /\ Goto(t, "P_next")
                     /\ SetLoc(t, [done |-> done, polled |-> FALSE])
     /\ UNCHANGED <<mid, midMutex, devMid, devMidMutex, comms, nAxes, pFirstDrv, link, ax,
                    axisMutex, pollEvent, skips, rec, stream, nOps>>
  \/ /\ pc[t] = "P_next"
     /\ skips' = [skips EXCEPT ![a] = (IF l.polled THEN SKIP_AFTER_POLL ELSE @)
                                      - SKIP_FACTOR]
     /\ SetLoc(t, Merge(CycleOver,
                        [i |-> l.i + 1,
                         prev |-> [l.prev EXCEPT ![l.i] = IF l.polled THEN "polled"
                                                          ELSE "skipped"]]))
     /\ Goto(t, "P_axis")
     /\ UNCHANGED <<mid, midMutex, devMid, devMidMutex, comms, nAxes, pFirstDrv, link, ax,
                    axisMutex, pollEvent, rec, stream, nOps>>

(***************************************************************************)
(* devAnc350.c: the asyn callbacks of a longin (callbackLiRead) and a      *)
(* longout (callbackLoWrite) record, run by the port thread ("rec").       *)
(***************************************************************************)
\* the union tel before anything is copied into it
TelUninit == [w \in 1 .. ACK_WORDS |-> Uninit]

\* for (count...) tel.raw[count + 4] = raw[count]
Overlay(tel, raw) ==
  [w \in 1 .. ACK_WORDS |-> IF w >= 2 /\ w - 1 <= Len(raw) THEN raw[w - 1] ELSE tel[w]]

\* writeIt: an error of the port, or fewer bytes sent than asked, is a failure
writeItIgnoreShort(outcome) == IF outcome = "error" THEN asynError ELSE asynSuccess
writeIt(outcome) == IF outcome = "ok" THEN asynSuccess ELSE asynError

\* if (tel.ack.hdr.length != 24) tel.ack.hdr.length = 24;
BodyLengthDeclared(declared) == declared
BodyLength(declared) == IF declared # ACK_LENGTH THEN ACK_LENGTH ELSE declared

\* while (nBytesRead != tel.ack.hdr.length && retries < 3) / (... retries < 1)
BodyRetriesOfGet(kind) == LI_BODY_RETRIES
BodyRetries(kind) == IF kind = "li" THEN LI_BODY_RETRIES ELSE LO_BODY_RETRIES

\* if (tel.ack.hdr.correlationNumber == localMid && status == asynSuccess)
DevCorrMatches(corr, localMid, status) == corr = localMid /\ status = asynSuccess

RecFrame ==
  UNCHANGED <<mid, midMutex, comms, nAxes, pFirstDrv, link, ax, axisMutex, pollEvent, skips>>

\* the record is processed: asyn queues the callback for the port thread
RecordProcess(t, E) ==
  /\ pc[t] = "idle"
  /\ nOps < E.maxOps
  \* E.afterInit: the records are processed after iocInit, the controllers
  \* are created by the startup script before it
  /\ E.afterInit => \A c \in Controllers : PollerOf(c) \in E.pollers => Created(c)
  /\ nOps' = nOps + 1
  /\ \E r \in E.records :
       SetLoc(t, [LocInit EXCEPT !.kind = r.kind, !.hasParam = r.hasParam,
                                 !.location = r.location, !.axis = <<r.port, r.addr + 1>>,
                                 !.setval = r.val, !.tel = TelUninit])
  /\ Goto(t, "L_lock")
  /\ rec' = RecInit
  /\ UNCHANGED <<devMid, devMidMutex, stream>>
  /\ RecFrame

callbackRecord(t, E) ==
  LET l == loc[t]
      request == IF l.kind = "li"
                 THEN GetTelegram(l.location, l.axis[2] - 1, l.localMid)
                 ELSE SetTelegram(l.location, l.axis[2] - 1, l.localMid, l.setval) IN
  \/ /\ pc[t] = "L_lock"
     /\ \E ok \in E.lockOK :
          IF ok
          THEN /\ devMidMutex = Free
               /\ devMidMutex' = t
               /\ Goto(t, "L_inc")
          ELSE /\ Goto(t, "L_inp")
               /\ UNCHANGED devMidMutex
     /\ UNCHANGED <<devMid, rec, loc, stream, nOps>>
     /\ RecFrame
  \/ /\ pc[t] = "L_inc"
     /\ devMid' = DevNextMid(devMid)
     /\ devMidMutex' = Free
     /\ SetLoc(t, [localMid |-> devMid'])
     /\ Goto(t, "L_inp")
     /\ UNCHANGED <<rec, stream, nOps>>
     /\ RecFrame
  \/ /\ pc[t] = "L_inp"
     /\ IF ~l.hasParam
        THEN /\ rec' = [rec EXCEPT !.finished = @ + 1]
             /\ Goto(t, "idle")
             /\ UNCHANGED loc
        ELSE /\ SetLoc(t, [req |-> request])
             /\ Goto(t, "L_wr")
             /\ UNCHANGED rec
     /\ UNCHANGED <<devMid, devMidMutex, stream, nOps>>
     /\ RecFrame
  \/ /\ pc[t] = "L_wr"
     /\ \E w \in E.writes :
        \E s \in (IF w = "ok" THEN Arrivals(E, link[l.axis[1]], l.location,
                                            l.axis[2] - 1, l.localMid)
                  ELSE {<<>>}) :
          /\ stream' = [stream EXCEPT ![t] = s]
          \* status = flushIt(pasynUser); status = writeIt(...)
          /\ SetLoc(t, [status |-> writeIt(w), req |-> <<>>, exch |-> l.exch + 1,
                        ack |-> s, wrote |-> w, flushes |-> l.flushes + 1])
          /\ Goto(t, IF writeIt(w) = asynSuccess THEN "L_while" ELSE "L_fin")
     /\ UNCHANGED <<devMid, devMidMutex, rec, nOps>>
     /\ RecFrame
  \/ /\ pc[t] = "L_while"
     /\ Goto(t, IF l.match = 0 /\ l.msgretries < MSG_RETRIES THEN "L_len" ELSE "L_fin")
     /\ UNCHANGED <<devMid, devMidMutex, rec, loc, stream, nOps>>
     /\ RecFrame
  \/ /\ pc[t] = "L_len"
     /\ IF l.nBytesRead = 0 /\ l.retries < LEN_RETRIES
        THEN \E n \in ReadCounts(E, stream[t], WORD) :
               /\ SetLoc(t, [raw |-> SubSeq(stream[t], 1, n),
                             status |-> IF n > 0 THEN asynSuccess ELSE asynError,
                             nBytesRead |-> n * WORD, retries |-> l.retries + 1,
                             lenReads |-> l.lenReads + 1])
               /\ stream' = [stream EXCEPT ![t] = SubSeq(@, n + 1, Len(@))]
               /\ Goto(t, "L_len")
        ELSE /\ IF l.status = asynSuccess
                THEN /\ SetLoc(t, [tel |-> [l.tel EXCEPT ![1] = BodyLength(l.raw[1])],
                                   nBytesRead |-> 0, retries |-> 0])
                     /\ Goto(t, "L_body")
                ELSE /\ Goto(t, "L_match")
                     /\ UNCHANGED loc
             /\ UNCHANGED stream
     /\ UNCHANGED <<devMid, devMidMutex, rec, nOps>>
     /\ RecFrame
  \/ /\ pc[t] = "L_body"
     /\ IF l.nBytesRead # l.tel[1] /\ l.retries < BodyRetries(l.kind)
        THEN \E n \in ReadCounts(E, stream[t], l.tel[1]) :
               /\ SetLoc(t, [raw |-> SubSeq(stream[t], 1, n),
                             status |-> IF n > 0 THEN asynSuccess ELSE asynError,
                             nBytesRead |-> n * WORD, retries |-> l.retries + 1,
                             asked |-> l.tel[1], bodyReads |-> l.bodyReads + 1])
               /\ stream' = [stream EXCEPT ![t] = SubSeq(@, n + 1, Len(@))]
               /\ Goto(t, "L_body")
        ELSE /\ IF l.status = asynSuccess
                THEN SetLoc(t, [tel |-> Overlay(l.tel, l.raw)])
                ELSE UNCHANGED loc
             /\ Goto(t, "L_match")
             /\ UNCHANGED stream
     /\ UNCHANGED <<devMid, devMidMutex, rec, nOps>>
     /\ RecFrame
  \/ /\ pc[t] = "L_match"
     /\ \E corr \in (IF l.tel[CORR_WORD] = Uninit THEN JunkIds(l.localMid)
                     ELSE {l.tel[CORR_WORD]}) :
        \E data \in (IF l.tel[DATA_WORD] = Uninit THEN JunkData(E)
                     ELSE {Delivered(l.tel)}) :
          IF DevCorrMatches(corr, l.localMid, l.status)
          THEN /\ SetLoc(t, [match |-> 1])
               /\ rec' = [rec EXCEPT !.udf = 0,
                                     !.val = IF l.kind = "li" THEN data ELSE @]
          ELSE /\ SetLoc(t, [msgretries |-> l.msgretries + 1])
               /\ UNCHANGED rec
     /\ Goto(t, "L_while")
     /\ UNCHANGED <<devMid, devMidMutex, stream, nOps>>
     /\ RecFrame
  \/ /\ pc[t] = "L_fin"
     /\ rec' = [rec EXCEPT !.finished = @ + 1]
     /\ stream' = [stream EXCEPT ![t] = <<>>]
     /\ SetLoc(t, [raw |-> <<>>])
     /\ Goto(t, "idle")
     /\ UNCHANGED <<devMid, devMidMutex, nOps>>
     /\ RecFrame

(***************************************************************************)
(* The initial state: the statics as the loader leaves them, or as other   *)
(* controllers and records of the process left them (E.mid0, E.devMid0,    *)
(* E.comms0); every controller of E.pollers is entering                    *)
(* anc350AsynMotorCreate's loop over its axes.                             *)
(***************************************************************************)
InitOf(E) ==
  /\ mid \in E.mid0
  /\ midMutex = Free
  /\ devMid \in E.devMid0
  /\ devMidMutex = Free
  /\ comms \in E.comms0
  /\ nAxes = E.nAxes
  /\ pFirstDrv = <<>>
  /\ link \in E.links
  /\ ax = [a \in Axes |-> AxisInit]
  /\ axisMutex = [a \in Axes |-> Free]
  /\ pollEvent = [c \in Controllers |-> FALSE]
  /\ skips = [a \in Axes |-> 0]
  /\ rec = RecInit
  /\ pc = [t \in Threads |-> IF t \in E.pollers THEN "C_create" ELSE "idle"]
  /\ loc = [t \in Threads |-> IF t \in E.pollers THEN [LocInit EXCEPT !.phase = "create"]
                              ELSE LocInit]
  /\ stream = [t \in Threads |-> <<>>]
  /\ nOps = 0

(***************************************************************************)
(* One controller with one axis, its poller and the motor record's thread. *)
(***************************************************************************)
MainEnv ==
  [lockOK |-> {TRUE}, writeOK |-> {TRUE}, short |-> FALSE, replies |-> {"own"},
   declared |-> {ACK_LENGTH}, reasons |-> {0},
   statusWords |-> {ANC_STATUS_RUNNING, ANC_STATUS_REF_VALID},
   positions |-> {0}, amplitudes |-> {0}, refs |-> {0}, acks |-> {0}, junk |-> {0},
   oob |-> {"none"}, afterInit |-> FALSE, once |-> FALSE,
   connectOK |-> {TRUE}, axisOK |-> {TRUE},
   endless |-> FALSE, countCap |-> {},
   mid0 |-> {0}, devMid0 |-> {0}, comms0 |-> {0},
   nAxes |-> [c \in Controllers |-> IF c = 1 THEN 1 ELSE 0],
   links |-> {[c \in Controllers |-> TRUE], [c \in Controllers |-> FALSE]},
   pollers |-> {"poll1"}, maxOps |-> MaxOps,
   commands |-> {[kind |-> "move", arg |-> 1], [kind |-> "rmove", arg |-> -1],
                 [kind |-> "home", arg |-> 1], [kind |-> "jog", arg |-> -1],
                 [kind |-> "stop", arg |-> 0]},
   records |-> {}, writes |-> {"ok"}]

Init == InitOf(MainEnv)

Next ==
  \/ anc350AsynMotorCreate("poll1", MainEnv)
  \/ drvAnc350GetAxisInitialStatus("poll1", MainEnv)
  \/ drvAnc350GetAxisStatus("poll1", MainEnv)
  \/ drvAnc350Task("poll1", MainEnv)
  \/ CommandCall("cmd", MainEnv)
  \/ motorAxisMove("cmd", MainEnv)
  \/ motorAxisHome("cmd", MainEnv)
  \/ motorAxisVelocityMove("cmd", MainEnv)
  \/ motorAxisStop("cmd", MainEnv)
  \/ \E t \in {"poll1", "cmd"} : motorAxisSet(t, MainEnv)
  \/ motorAxisGet("poll1", MainEnv)

Spec == Init /\ [][Next]_vars

(***************************************************************************)
(* The comms counter: one controller with one axis and its poller; no      *)
(* motion command is called, so no homing is in progress and the poller    *)
(* never calls motorAxisSet.                                               *)
(***************************************************************************)
CommsEnv ==
  [lockOK |-> {TRUE}, writeOK |-> {TRUE}, short |-> FALSE, replies |-> {"own"},
   declared |-> {ACK_LENGTH}, reasons |-> {0},
   statusWords |-> {ANC_STATUS_RUNNING},
   positions |-> {0}, amplitudes |-> {0}, refs |-> {0}, acks |-> {0}, junk |-> {0},
   oob |-> {"none"}, afterInit |-> FALSE, once |-> FALSE,
   connectOK |-> {TRUE}, axisOK |-> {TRUE},
   endless |-> FALSE, countCap |-> {},
   mid0 |-> {0}, devMid0 |-> {0}, comms0 |-> {0},
   nAxes |-> [c \in Controllers |-> IF c = 1 THEN 1 ELSE 0],
   links |-> {[c \in Controllers |-> TRUE]},
   pollers |-> {"poll1"}, maxOps |-> MaxCommsCycles,
   commands |-> {}, records |-> {}, writes |-> {"ok"}]

InitComms == InitOf(CommsEnv)

NextComms ==
  \/ anc350AsynMotorCreate("poll1", CommsEnv)
  \/ drvAnc350GetAxisInitialStatus("poll1", CommsEnv)
  \/ drvAnc350GetAxisStatus("poll1", CommsEnv)
  \/ drvAnc350Task("poll1", CommsEnv)
  \/ motorAxisGet("poll1", CommsEnv)

SpecComms == InitComms /\ [][NextComms]_vars

(***************************************************************************)
(* The id counters: the poller and the motor record's thread of one        *)
(* controller and the port thread of a longin and a longout record, with   *)
(* both counters near their wrap, a mutex implementation that may fail and *)
(* a controller that does not answer; the records use the port of a second *)
(* device, which answers.                                                  *)
(***************************************************************************)
IdsEnv ==
  [lockOK |-> {TRUE, FALSE}, writeOK |-> {TRUE}, short |-> FALSE, replies |-> {"own"},
   declared |-> {ACK_LENGTH}, reasons |-> {0},
   statusWords |-> {ANC_STATUS_RUNNING},
   positions |-> {0}, amplitudes |-> {0}, refs |-> {0}, acks |-> {0}, junk |-> {0},
   oob |-> {"none"}, afterInit |-> FALSE, once |-> FALSE,
   connectOK |-> {TRUE}, axisOK |-> {TRUE},
   endless |-> FALSE, countCap |-> {},
   mid0 |-> {MID_MAX - MidLead}, devMid0 |-> {MID_MAX - MidLead}, comms0 |-> {0},
   nAxes |-> [c \in Controllers |-> IF c = 1 THEN 1 ELSE 0],
   links |-> {[c \in Controllers |-> c = 2]},
   pollers |-> {"poll1"}, maxOps |-> MaxMidOps,
   commands |-> {[kind |-> "stop", arg |-> 0]},
   records |-> {[kind |-> "li", hasParam |-> TRUE, location |-> ID_ANC_COUNTER,
                 port |-> 2, addr |-> 0, val |-> 0],
                [kind |-> "lo", hasParam |-> TRUE, location |-> ID_ANC_TARGET,
                 port |-> 2, addr |-> 0, val |-> 1],
                [kind |-> "li", hasParam |-> FALSE, location |-> 0,
                 port |-> 2, addr |-> 0, val |-> 0]},
   writes |-> {"ok"}]

InitIds == InitOf(IdsEnv)

NextIds ==
  \/ anc350AsynMotorCreate("poll1", IdsEnv)
  \/ drvAnc350GetAxisInitialStatus("poll1", IdsEnv)
  \/ drvAnc350GetAxisStatus("poll1", IdsEnv)
  \/ drvAnc350Task("poll1", IdsEnv)
  \/ CommandCall("cmd", IdsEnv)
  \/ motorAxisStop("cmd", IdsEnv)
  \/ motorAxisSet("cmd", IdsEnv)
  \/ motorAxisGet("poll1", IdsEnv)
  \/ RecordProcess("rec", IdsEnv)
  \/ callbackRecord("rec", IdsEnv)

SpecIds == InitIds /\ [][NextIds]_vars

(***************************************************************************)
(* The replies: the poller of one controller and the port thread of a      *)
(* longin and a longout record on the same port; a reply may be missing,   *)
(* late (the Ack of the request before), or handed over in pieces.         *)
(***************************************************************************)
RetryEnv ==
  [lockOK |-> {TRUE}, writeOK |-> {TRUE, FALSE}, short |-> TRUE, replies |-> {"own", "late"},
   declared |-> {ACK_LENGTH, 2 * WORD}, reasons |-> {0},
   statusWords |-> {ANC_STATUS_RUNNING},
   positions |-> {7}, amplitudes |-> {0}, refs |-> {0}, acks |-> {0}, junk |-> {3},
   oob |-> {"none"}, afterInit |-> FALSE, once |-> FALSE,
   connectOK |-> {TRUE}, axisOK |-> {TRUE},
   endless |-> FALSE, countCap |-> {},
   mid0 |-> {0}, devMid0 |-> {0}, comms0 |-> {0},
   nAxes |-> [c \in Controllers |-> IF c = 1 THEN 1 ELSE 0],
   links |-> {[c \in Controllers |-> TRUE]},
   pollers |-> {"poll1"}, maxOps |-> MaxRetryOps,
   commands |-> {},
   records |-> {[kind |-> "li", hasParam |-> TRUE, location |-> ID_ANC_COUNTER,
                 port |-> 1, addr |-> 0, val |-> 0],
                [kind |-> "lo", hasParam |-> TRUE, location |-> ID_ANC_TARGET,
                 port |-> 1, addr |-> 0, val |-> 1],
                [kind |-> "li", hasParam |-> FALSE, location |-> 0,
                 port |-> 1, addr |-> 0, val |-> 0]},
   writes |-> {"ok", "short", "error"}]

\* the controller's answers to the poller all come one request late
RetryPollEnv ==
  [RetryEnv EXCEPT !.replies = {"late"}, !.writeOK = {TRUE}, !.short = FALSE,
                   !.declared = {ACK_LENGTH}]

InitRetry == InitOf(RetryEnv)

NextRetry ==
  \/ anc350AsynMotorCreate("poll1", RetryPollEnv)
  \/ drvAnc350GetAxisInitialStatus("poll1", RetryPollEnv)
  \/ drvAnc350GetAxisStatus("poll1", RetryPollEnv)
  \/ drvAnc350Task("poll1", RetryPollEnv)
  \/ motorAxisGet("poll1", RetryPollEnv)
  \/ RecordProcess("rec", RetryEnv)
  \/ callbackRecord("rec", RetryEnv)

SpecRetry == InitRetry /\ [][NextRetry]_vars

(***************************************************************************)
(* Two controllers with one axis each and their pollers; the first         *)
(* controller does not answer, the second does.  The creation of either    *)
(* may fail to connect or to set up its axis.                              *)
(***************************************************************************)
TwoEnv ==
  [lockOK |-> {TRUE}, writeOK |-> {TRUE}, short |-> FALSE, replies |-> {"own"},
   declared |-> {ACK_LENGTH}, reasons |-> {0},
   statusWords |-> {ANC_STATUS_RUNNING},
   positions |-> {0}, amplitudes |-> {0}, refs |-> {0}, acks |-> {0}, junk |-> {0},
   oob |-> {"none"}, afterInit |-> FALSE, once |-> FALSE,
   connectOK |-> {TRUE, FALSE}, axisOK |-> {TRUE, FALSE},
   endless |-> FALSE, countCap |-> {},
   mid0 |-> {0}, devMid0 |-> {0}, comms0 |-> {0},
   nAxes |-> [c \in Controllers |-> 1],
   links |-> {[c \in Controllers |-> c = 2]},
   pollers |-> Pollers, maxOps |-> MaxTwoOps,
   commands |-> {}, records |-> {}, writes |-> {"ok"}]

InitTwo == InitOf(TwoEnv)

NextTwo ==
  \E t \in Pollers :
    \/ anc350AsynMotorCreate(t, TwoEnv)
    \/ drvAnc350GetAxisInitialStatus(t, TwoEnv)
    \/ drvAnc350GetAxisStatus(t, TwoEnv)
    \/ drvAnc350Task(t, TwoEnv)
    \/ motorAxisGet(t, TwoEnv)

SpecTwo == InitTwo /\ [][NextTwo]_vars

\* anc350AsynMotorCreate is running in the startup script
Creating(t) == loc[t].phase = "create" /\ pc[t] # "C_create"

\* anc350AsynMotorCreate called again by the startup script (thread t) for
\* the card of a controller that was created
CreateAgain(t, E) ==
  /\ pc[t] = "idle"
  /\ nOps < E.maxOps
  /\ \A p \in E.pollers : ~Creating(p)
  /\ \E c \in Controllers, connected \in E.connectOK, axesOK \in E.axisOK :
       LET found == FindCard(pFirstDrv, c)
           status == IF found = 0 THEN CreateStatus(connected, axesOK)
                     ELSE MOTOR_AXIS_ERROR IN
       /\ Created(c)
       /\ pFirstDrv' = IF status = MOTOR_AXIS_OK THEN Append(pFirstDrv, c)
                       ELSE pFirstDrv
       /\ loc' = [loc EXCEPT ![t] = [LocInit EXCEPT !.kind = "create", !.target = c,
                                                     !.ret = status]]
  /\ nOps' = nOps + 1
  /\ UNCHANGED <<mid, midMutex, devMid, devMidMutex, comms, nAxes, link, ax,
                 axisMutex, pollEvent, skips, rec, pc, stream>>

(***************************************************************************)
(* Creating: two controllers with one axis each, created one after the     *)
(* other by the startup script, which may call the creation again for a    *)
(* card that exists; the connect to a controller may fail.                 *)
(***************************************************************************)
CreateEnv ==
  [lockOK |-> {TRUE}, writeOK |-> {TRUE}, short |-> FALSE,
   replies |-> {"own", "always", "prompt"},
   declared |-> {ACK_LENGTH}, reasons |-> {0},
   statusWords |-> {0},
   positions |-> {0}, amplitudes |-> {0}, refs |-> {0}, acks |-> {0}, junk |-> {0},
   oob |-> {"none"}, afterInit |-> FALSE, once |-> FALSE,
   connectOK |-> {TRUE, FALSE}, axisOK |-> {TRUE},
   endless |-> FALSE, countCap |-> {},
   mid0 |-> {0}, devMid0 |-> {0}, comms0 |-> {0},
   nAxes |-> [c \in Controllers |-> 1],
   links |-> {[c \in Controllers |-> TRUE]},
   pollers |-> Pollers, maxOps |-> MaxCreateOps,
   commands |-> {}, records |-> {}, writes |-> {"ok"}]

InitCreate == InitOf(CreateEnv)

NextCreate ==
  \/ CreateAgain("cmd", CreateEnv)
  \/ \E t \in Pollers :
       \/ anc350AsynMotorCreate(t, CreateEnv)
       \/ drvAnc350GetAxisInitialStatus(t, CreateEnv)
       \/ drvAnc350GetAxisStatus(t, CreateEnv)
       \/ drvAnc350Task(t, CreateEnv)
       \/ motorAxisGet(t, CreateEnv)

SpecCreate == InitCreate /\ [][NextCreate]_vars

(***************************************************************************)
(* Homing: one controller with one axis, its poller and the motor record's *)
(* thread, which calls motorAxisHome; the controller reports the axis as   *)
(* not referenced, referenced, or referenced and still running.            *)
(***************************************************************************)
HomeEnv ==
  [lockOK |-> {TRUE}, writeOK |-> {TRUE}, short |-> FALSE, replies |-> {"own"},
   declared |-> {ACK_LENGTH}, reasons |-> {0},
   statusWords |-> {0, ANC_STATUS_REF_VALID, ANC_STATUS_REF_VALID + ANC_STATUS_RUNNING},
   positions |-> {0}, amplitudes |-> {0}, refs |-> {0}, acks |-> {0}, junk |-> {0},
   oob |-> {"none"}, afterInit |-> FALSE, once |-> FALSE,
   connectOK |-> {TRUE}, axisOK |-> {TRUE},
   endless |-> FALSE, countCap |-> {},
   mid0 |-> {0}, devMid0 |-> {0}, comms0 |-> {0},
   nAxes |-> [c \in Controllers |-> IF c = 1 THEN 1 ELSE 0],
   links |-> {[c \in Controllers |-> TRUE]},
   pollers |-> {"poll1"}, maxOps |-> MaxHomeOps,
   commands |-> {[kind |-> "home", arg |-> 1]},
   records |-> {}, writes |-> {"ok"}]

InitHome == InitOf(HomeEnv)

NextHome ==
  \/ anc350AsynMotorCreate("poll1", HomeEnv)
  \/ drvAnc350GetAxisInitialStatus("poll1", HomeEnv)
  \/ drvAnc350GetAxisStatus("poll1", HomeEnv)
  \/ drvAnc350Task("poll1", HomeEnv)
  \/ CommandCall("cmd", HomeEnv)
  \/ motorAxisHome("cmd", HomeEnv)
  \/ \E t \in {"poll1", "cmd"} : motorAxisSet(t, HomeEnv)
  \/ motorAxisGet("poll1", HomeEnv)

SpecHome == InitHome /\ [][NextHome]_vars

(***************************************************************************)
(* Polling: one controller with one axis and its poller; every get may     *)
(* stay unanswered, the status word may show the hump, and the position    *)
(* moves by less than, exactly, and more than the deadband.                *)
(***************************************************************************)
PollEnv ==
  [lockOK |-> {TRUE}, writeOK |-> {TRUE}, short |-> FALSE, replies |-> {"own"},
   declared |-> {ACK_LENGTH}, reasons |-> {0},
   statusWords |-> {0, ANC_STATUS_HUMP},
   positions |-> {0, DEADBAND - 1, DEADBAND, DEADBAND + 1},
   amplitudes |-> {5}, refs |-> {0}, acks |-> {0}, junk |-> {3},
   oob |-> {"none"}, afterInit |-> FALSE, once |-> FALSE,
   connectOK |-> {TRUE}, axisOK |-> {TRUE},
   endless |-> FALSE, countCap |-> {},
   mid0 |-> {0}, devMid0 |-> {0}, comms0 |-> {0},
   nAxes |-> [c \in Controllers |-> IF c = 1 THEN 1 ELSE 0],
   links |-> {[c \in Controllers |-> TRUE]},
   pollers |-> {"poll1"}, maxOps |-> MaxPollOps,
   commands |-> {}, records |-> {}, writes |-> {"ok"}]

InitPoll == InitOf(PollEnv)

NextPoll ==
  \/ anc350AsynMotorCreate("poll1", PollEnv)
  \/ drvAnc350GetAxisInitialStatus("poll1", PollEnv)
  \/ drvAnc350GetAxisStatus("poll1", PollEnv)
  \/ drvAnc350Task("poll1", PollEnv)
  \/ motorAxisGet("poll1", PollEnv)

SpecPoll == InitPoll /\ [][NextPoll]_vars

(***************************************************************************)
(* The telegrams: one controller with two axes, polled while it is         *)
(* created, then the motor record's thread and the port thread of a longin *)
(* and a longout record; the controller answers every request, with any    *)
(* reason in its Ack.  The poller's later cycles send the                  *)
(* same telegrams as the polls of the creation and are left out.           *)
(***************************************************************************)
WireEnv ==
  [lockOK |-> {TRUE}, writeOK |-> {TRUE}, short |-> FALSE,
   replies |-> {"own", "always"},
   declared |-> {ACK_LENGTH}, reasons |-> {0, 99},
   statusWords |-> {ANC_STATUS_RUNNING},
   positions |-> {7}, amplitudes |-> {5}, refs |-> {0}, acks |-> {0}, junk |-> {3},
   oob |-> StrayStores, afterInit |-> TRUE, once |-> FALSE,
   connectOK |-> {TRUE}, axisOK |-> {TRUE},
   endless |-> FALSE, countCap |-> {},
   mid0 |-> {0}, devMid0 |-> {0}, comms0 |-> {0},
   nAxes |-> [c \in Controllers |-> IF c = 1 THEN 2 ELSE 0],
   links |-> {[c \in Controllers |-> TRUE]},
   pollers |-> {"poll1"}, maxOps |-> MaxWireOps,
   commands |-> {[kind |-> "move", arg |-> 9]},
   records |-> {[kind |-> "li", hasParam |-> TRUE, location |-> ID_ANC_COUNTER,
                 port |-> 1, addr |-> 0, val |-> 0],
                [kind |-> "lo", hasParam |-> TRUE, location |-> ID_ANC_TARGET,
                 port |-> 1, addr |-> 0, val |-> 4]},
   writes |-> {"ok"}]

InitWire == InitOf(WireEnv)

NextWire ==
  \/ anc350AsynMotorCreate("poll1", WireEnv)
  \/ drvAnc350GetAxisInitialStatus("poll1", WireEnv)
  \/ drvAnc350GetAxisStatus("poll1", WireEnv)
  \/ motorAxisGet("poll1", WireEnv)
  \/ CommandCall("cmd", WireEnv)
  \/ motorAxisMove("cmd", WireEnv)
  \/ motorAxisSet("cmd", WireEnv)
  \/ RecordProcess("rec", WireEnv)
  \/ callbackRecord("rec", WireEnv)

SpecWire == InitWire /\ [][NextWire]_vars

(***************************************************************************)
(* The wake event: one controller with two axes, its poller and the motor  *)
(* record's thread, which moves, homes, jogs or stops an axis once; the    *)
(* controller answers every request in time and reports the axes as       *)
(* stopped.                                                                *)
(***************************************************************************)
WakeEnv ==
  [lockOK |-> {TRUE}, writeOK |-> {TRUE}, short |-> FALSE,
   replies |-> {"own", "always", "prompt"},
   declared |-> {ACK_LENGTH}, reasons |-> {0},
   statusWords |-> {0},
   positions |-> {0}, amplitudes |-> {0}, refs |-> {0}, acks |-> {0}, junk |-> {0},
   oob |-> {"none"}, afterInit |-> FALSE, once |-> TRUE,
   connectOK |-> {TRUE}, axisOK |-> {TRUE},
   endless |-> FALSE, countCap |-> {},
   mid0 |-> {0}, devMid0 |-> {0}, comms0 |-> {0},
   nAxes |-> [c \in Controllers |-> IF c = 1 THEN 2 ELSE 0],
   links |-> {[c \in Controllers |-> TRUE]},
   pollers |-> {"poll1"}, maxOps |-> MaxWakeOps,
   commands |-> {[kind |-> "move", arg |-> 1], [kind |-> "home", arg |-> 1],
                 [kind |-> "jog", arg |-> 1], [kind |-> "stop", arg |-> 0]},
   records |-> {}, writes |-> {"ok"}]

InitWake == InitOf(WakeEnv)

NextWake ==
  \/ anc350AsynMotorCreate("poll1", WakeEnv)
  \/ drvAnc350GetAxisInitialStatus("poll1", WakeEnv)
  \/ drvAnc350GetAxisStatus("poll1", WakeEnv)
  \/ drvAnc350Task("poll1", WakeEnv)
  \/ CommandCall("cmd", WakeEnv)
  \/ motorAxisMove("cmd", WakeEnv)
  \/ motorAxisHome("cmd", WakeEnv)
  \/ motorAxisVelocityMove("cmd", WakeEnv)
  \/ motorAxisStop("cmd", WakeEnv)
  \/ \E t \in {"poll1", "cmd"} : motorAxisSet(t, WakeEnv)
  \/ motorAxisGet("poll1", WakeEnv)

SpecWake == InitWake /\ [][NextWake]_vars

(***************************************************************************)
(* The id counters alone: one caller allocates ids from the fresh counter  *)
(* of the motor driver, or of the device support, one after the other.     *)
(***************************************************************************)
AllocEnv ==
  [mid0 |-> {0}, devMid0 |-> {0}, comms0 |-> {0},
   nAxes |-> [c \in Controllers |-> 0],
   links |-> {[c \in Controllers |-> TRUE]},
   pollers |-> {}, maxOps |-> MaxAllocs]

InitAlloc == InitOf(AllocEnv)

\* motorAxisSet / motorAxisGet: lock midMutexId, mid++, wrap, localMid = mid,
\* unlock, by a caller that makes its calls one after the other
AllocateMid(t, E) ==
  /\ pc[t] = "idle" /\ midMutex = Free
  /\ devMid \in E.devMid0
  /\ nOps < E.maxOps
  /\ nOps' = nOps + 1
  /\ mid' = NextMid(mid)
  /\ SetLoc(t, [localMid |-> mid'])
  /\ UNCHANGED <<midMutex, devMid, devMidMutex, comms, nAxes, pFirstDrv, link, ax,
                 axisMutex, pollEvent, skips, rec, pc, stream>>

\* callbackLiRead / callbackLoWrite: the same on the counter of devAnc350.c
DevAllocateMid(t, E) ==
  /\ pc[t] = "idle" /\ devMidMutex = Free
  /\ mid \in E.mid0
  /\ nOps < E.maxOps
  /\ nOps' = nOps + 1
  /\ devMid' = DevNextMid(devMid)
  /\ SetLoc(t, [localMid |-> devMid'])
  /\ UNCHANGED <<mid, midMutex, devMidMutex, comms, nAxes, pFirstDrv, link, ax,
                 axisMutex, pollEvent, skips, rec, pc, stream>>

NextAlloc ==
  \/ AllocateMid("cmd", AllocEnv)
  \/ DevAllocateMid("rec", AllocEnv)

SpecAlloc == InitAlloc /\ [][NextAlloc]_vars

(***************************************************************************)
(* The poller for ever: one controller with two axes that never answers    *)
(* once it is created, and its poller, which is always scheduled again:    *)
(* its wait ends with the event or the timeout and every read of the port  *)
(* times out.                                                              *)
(***************************************************************************)
LiveEnv ==
  [lockOK |-> {TRUE}, writeOK |-> {TRUE}, short |-> FALSE, replies |-> {"own"},
   declared |-> {ACK_LENGTH}, reasons |-> {0},
   statusWords |-> {0},
   positions |-> {0}, amplitudes |-> {0}, refs |-> {0}, acks |-> {0}, junk |-> {0},
   oob |-> {"none"}, afterInit |-> FALSE, once |-> FALSE,
   connectOK |-> {TRUE}, axisOK |-> {TRUE},
   endless |-> TRUE, countCap |-> {MaxFailures},
   mid0 |-> {0}, devMid0 |-> {0}, comms0 |-> {0},
   nAxes |-> [c \in Controllers |-> IF c = 1 THEN 2 ELSE 0],
   links |-> {[c \in Controllers |-> FALSE]},
   pollers |-> {"poll1"}, maxOps |-> 0,
   commands |-> {}, records |-> {}, writes |-> {"ok"}]

InitLive == InitOf(LiveEnv)

NextLive ==
  \/ anc350AsynMotorCreate("poll1", LiveEnv)
  \/ drvAnc350GetAxisInitialStatus("poll1", LiveEnv)
  \/ drvAnc350GetAxisStatus("poll1", LiveEnv)
  \/ drvAnc350Task("poll1", LiveEnv)
  \/ motorAxisGet("poll1", LiveEnv)

SpecLive == InitLive /\ [][NextLive]_vars /\ WF_vars(NextLive)

(***************************************************************************)
(* The idle polls: one controller with two axes and its poller; the        *)
(* controller answers every request in time and reports an axis as running *)
(* or as stopped.                                                          *)
(***************************************************************************)
SkipEnv ==
  [lockOK |-> {TRUE}, writeOK |-> {TRUE}, short |-> FALSE,
   replies |-> {"own", "always", "prompt"},
   declared |-> {ACK_LENGTH}, reasons |-> {0},
   statusWords |-> {0, ANC_STATUS_RUNNING},
   positions |-> {0}, amplitudes |-> {0}, refs |-> {0}, acks |-> {0}, junk |-> {0},
   oob |-> {"none"}, afterInit |-> FALSE, once |-> FALSE,
   connectOK |-> {TRUE}, axisOK |-> {TRUE},
   endless |-> FALSE, countCap |-> {},
   mid0 |-> {0}, devMid0 |-> {0}, comms0 |-> {0},
   nAxes |-> [c \in Controllers |-> IF c = 1 THEN 2 ELSE 0],
   links |-> {[c \in Controllers |-> TRUE]},
   pollers |-> {"poll1"}, maxOps |-> MaxSkipOps,
   commands |-> {}, records |-> {}, writes |-> {"ok"}]

InitSkip == InitOf(SkipEnv)

NextSkip ==
  \/ anc350AsynMotorCreate("poll1", SkipEnv)
  \/ drvAnc350GetAxisInitialStatus("poll1", SkipEnv)
  \/ drvAnc350GetAxisStatus("poll1", SkipEnv)
  \/ drvAnc350Task("poll1", SkipEnv)
  \/ motorAxisGet("poll1", SkipEnv)

SpecSkip == InitSkip /\ [][NextSkip]_vars

(***************************************************************************)
(* Stopping a homing run: one controller with one axis, its poller and the *)
(* motor record's thread, which homes and stops the axis; the controller   *)
(* answers every request in time and reports the reference as valid or not.*)
(***************************************************************************)
StopEnv ==
  [lockOK |-> {TRUE}, writeOK |-> {TRUE}, short |-> FALSE,
   replies |-> {"own", "always", "prompt"},
   declared |-> {ACK_LENGTH}, reasons |-> {0},
   statusWords |-> {0, ANC_STATUS_REF_VALID},
   positions |-> {0}, amplitudes |-> {0}, refs |-> {0}, acks |-> {0}, junk |-> {0},
   oob |-> {"none"}, afterInit |-> FALSE, once |-> FALSE,
   connectOK |-> {TRUE}, axisOK |-> {TRUE},
   endless |-> FALSE, countCap |-> {},
   mid0 |-> {0}, devMid0 |-> {0}, comms0 |-> {0},
   nAxes |-> [c \in Controllers |-> IF c = 1 THEN 1 ELSE 0],
   links |-> {[c \in Controllers |-> TRUE]},
   pollers |-> {"poll1"}, maxOps |-> MaxStopOps,
   commands |-> {[kind |-> "home", arg |-> 1], [kind |-> "stop", arg |-> 0]},
   records |-> {}, writes |-> {"ok"}]

InitStop == InitOf(StopEnv)

NextStop ==
  \/ anc350AsynMotorCreate("poll1", StopEnv)
  \/ drvAnc350GetAxisInitialStatus("poll1", StopEnv)
  \/ drvAnc350GetAxisStatus("poll1", StopEnv)
  \/ drvAnc350Task("poll1", StopEnv)
  \/ CommandCall("cmd", StopEnv)
  \/ motorAxisHome("cmd", StopEnv)
  \/ motorAxisStop("cmd", StopEnv)
  \/ \E t \in {"poll1", "cmd"} : motorAxisSet(t, StopEnv)
  \/ motorAxisGet("poll1", StopEnv)

SpecStop == InitStop /\ [][NextStop]_vars

(***************************************************************************)
(* Moving: one controller with one axis, its poller and the motor record's *)
(* thread, which moves the axis once, to a position or by a distance; any  *)
(* set command may fail to be written, and the controller reports a        *)
(* reference position of zero or not.                                      *)
(***************************************************************************)
MoveEnv ==
  [lockOK |-> {TRUE}, writeOK |-> {TRUE, FALSE}, short |-> FALSE,
   replies |-> {"own", "always", "prompt"},
   declared |-> {ACK_LENGTH}, reasons |-> {0},
   statusWords |-> {0},
   positions |-> {0}, amplitudes |-> {0}, refs |-> {0, 5}, acks |-> {0}, junk |-> {0},
   oob |-> {"none"}, afterInit |-> FALSE, once |-> TRUE,
   connectOK |-> {TRUE}, axisOK |-> {TRUE},
   endless |-> FALSE, countCap |-> {},
   mid0 |-> {0}, devMid0 |-> {0}, comms0 |-> {0},
   nAxes |-> [c \in Controllers |-> IF c = 1 THEN 1 ELSE 0],
   links |-> {[c \in Controllers |-> TRUE]},
   pollers |-> {"poll1"}, maxOps |-> MaxMoveOps,
   commands |-> {[kind |-> "move", arg |-> 3], [kind |-> "rmove", arg |-> -3]},
   records |-> {}, writes |-> {"ok"}]

InitMove == InitOf(MoveEnv)

NextMove ==
  \/ anc350AsynMotorCreate("poll1", MoveEnv)
  \/ drvAnc350GetAxisInitialStatus("poll1", MoveEnv)
  \/ drvAnc350GetAxisStatus("poll1", MoveEnv)
  \/ drvAnc350Task("poll1", MoveEnv)
  \/ CommandCall("cmd", MoveEnv)
  \/ motorAxisMove("cmd", MoveEnv)
  \/ \E t \in {"poll1", "cmd"} : motorAxisSet(t, MoveEnv)
  \/ motorAxisGet("poll1", MoveEnv)

SpecMove == InitMove /\ [][NextMove]_vars

(***************************************************************************)
(* Properties.                                                             *)
(***************************************************************************)
\* the correlation id of the request thread t has built and not yet written
Building(t) == loc[t].req # <<>>
IdOf(t) == loc[t].req[CORR_WORD]

\* C1: every correlation id that motorAxisGet, motorAxisSet, callbackLiRead
\* or callbackLoWrite places in a request telegram lies in 1 .. 10000, after
\* the counters wrapped and when the id lock could not be taken (id 1).
C1_IdInRange ==
  \A t \in Threads :
    /\ loc[t].localMid \in 1 .. MID_MAX
    /\ Building(t) => IdOf(t) \in 1 .. MID_MAX

\* both counters have wrapped and the poller and the record thread each hold
\* a request with the first id after the wrap
C1_Wrapped ==
  /\ mid = 1 /\ Building("poll1") /\ IdOf("poll1") = 1
  /\ devMid = 1 /\ Building("rec") /\ IdOf("rec") = 1

\* C3 as stated (weakened to ids other than the fallback id 1, which the
\* statement's own lock-failure rule hands out repeatedly): two requests that
\* are being sent at the same time, allocated fewer than 10000 allocations
\* apart, never carry the same correlation id.
C3_Original ==
  \A t, u \in Threads :
    (t # u /\ Building(t) /\ Building(u) /\ IdOf(t) # 1) => IdOf(t) # IdOf(u)

\* the telegram (if any) that arrived for the request of t carries the id of
\* that request
AckMatches(t) == loc[t].ack # <<>> /\ loc[t].ack[CORR_WORD] = loc[t].localMid

\* C2 as stated: a get (of the poller, of a longin record) is matched, and
\* delivers a value, only if the Ack that arrived for it carries the
\* correlation id of its request.
C2_Original ==
  \A t \in Threads : (loc[t].match = 1 /\ loc[t].kind # "lo") => AckMatches(t)

\* C4 (amended): a get or a set never repeats its exchange: every call
\* writes at most one request, reads the reply to it in at most one round and
\* a record whose only exchange failed or was unmatched is finished
\* undefined, without a second exchange.
C4_SingleExchange ==
  /\ \A t \in Threads : loc[t].exch <= 1 /\ loc[t].msgretries <= 1
  /\ (pc["rec"] = "L_fin" /\ loc["rec"].match = 0) => rec.udf = 1
  /\ (pc["poll1"] = "G_cnt" /\ loc["poll1"].status # asynSuccess) =>
       loc["poll1"].exch = 1

\* a record is being finished after one exchange whose reply carried another
\* id, and a get of the poller is failing after one exchange
C4_FailedOnce ==
  /\ pc["rec"] = "L_fin" /\ loc["rec"].match = 0 /\ loc["rec"].exch = 1
  /\ loc["rec"].ack # <<>> /\ ~AckMatches("rec")
  /\ pc["poll1"] = "G_cnt" /\ loc["poll1"].status # asynSuccess

\* C4 as stated: a call reports failure only after a second exchange.
C4_Original ==
  /\ (pc["rec"] = "L_fin" /\ loc["rec"].match = 0 /\ loc["rec"].hasParam) =>
       loc["rec"].exch = 2
  /\ (pc["poll1"] = "G_cnt" /\ loc["poll1"].status # asynSuccess) =>
       loc["poll1"].exch = 2

\* the labels motorAxisSet returns to
SetReturns ==
  {"M_1", "M_2", "M_3", "M_4", "H_1", "H_2", "H_3", "J_1", "J_2", "J_3", "T_1", "A_st2"}

\* C5 as stated: motorAxisSet returns MOTOR_AXIS_OK only after an Ack with
\* the correlation id of its request has been read.
C5_Original ==
  \A t \in Threads :
    (pc[t] \in SetReturns /\ loc[t].ret = MOTOR_AXIS_OK) => AckMatches(t)

C7_Original ==
  (\A c \in Controllers : Created(c)) => \A t \in Pollers : comms = loc[t].fails

\* C8 as stated: while a thread handles the reply to its request, no other
\* thread writes to or reads from the transport of the same controller.
C8_Original ==
  [][\A t, u \in Threads :
       (t # u /\ pc[t] \in {"G_chk", "G_cnt"} /\ pc[u] \in {"S_io", "G_io"}
        /\ loc[t].axis[1] = loc[u].axis[1])
       => pc'[u] = pc[u]]_vars

\* C9 as stated: a step of a motion command that changes the state of an
\* axis is taken while the command's thread holds the lock of that axis.
C9_Original ==
  [][\A a \in Axes :
       (pc'["cmd"] # pc["cmd"] /\ ax'[a] # ax[a]) => axisMutex[a] = "cmd"]_vars

\* C10 as stated: a move to a controller that answers nothing returns
\* MOTOR_AXIS_ERROR and leaves the done flag as it was when it was called.
C10_Original ==
  (pc["cmd"] = "M_sig" /\ loc["cmd"].kind = "move" /\ ~link[loc["cmd"].axis[1]])
  => /\ loc["cmd"].cstatus = MOTOR_AXIS_ERROR
     /\ ax[loc["cmd"].axis].done = loc["cmd"].done0

\* the poll cycle of axis 1 of controller 1 has read a STATUS word: the
\* poller is past line 977 with the lock held and status == asynSuccess
StatusRead(t) ==
  pc[t] = "A_pos" /\ loc[t].humpstatus = MOTOR_AXIS_OK

\* C11 (as stated): at the end of a poll cycle whose STATUS get succeeded
\* the homed flag equals the reference-valid bit of the status word read,
\* whether or not a homing was in progress.
C11_Original ==
  StatusRead("poll1") =>
    ax[<<1, 1>>].homed = Bit(loc["poll1"].stword, ANC_STATUS_REF_VALID)

\* the case of C12: the STATUS word read has the reference-valid bit and the
\* homing-in-progress flag was set when line 966 tested it
HomingSeen(t) ==
  /\ StatusRead(t)
  /\ Bit(loc[t].stword, ANC_STATUS_REF_VALID) = 1
  /\ loc[t].searching = 1

C12_CycleEnd ==
  pc["poll1"] = "A_pos" =>
    IF HomingSeen("poll1")
    THEN /\ loc["poll1"].sets = 1
         /\ ax[<<1, 1>>].homed = 1
         /\ ax[<<1, 1>>].done = 1
    ELSE loc["poll1"].sets = 0

C12_Step ==
  (/\ pc["poll1"] = "A_st" /\ pc'["poll1"] # "A_st"
   /\ loc["poll1"].ret = MOTOR_AXIS_OK
   /\ Bit(loc["poll1"].value, ANC_STATUS_REF_VALID) = 1
   /\ ax[<<1, 1>>].reference_search = 1)
  => /\ ax'[<<1, 1>>].reference_search = 0
     /\ pc'["poll1"] = "S_lock"
     /\ loc'["poll1"].location = ID_ANC_SGL_FWD
     /\ loc'["poll1"].axis = <<1, 1>>

\* C12: a poll cycle that reads a STATUS word with the reference-valid bit
\* while the homing-in-progress flag is set clears the flag, sends exactly
\* one single-step-forward set for the axis and leaves homed = 1 and
\* done = 1, also when the running bit is set; a cycle that does not find
\* the flag set sends no set.
C12_Homing == [](C12_CycleEnd) /\ [][C12_Step]_vars

C12_Stepped ==
  /\ HomingSeen("poll1")
  /\ Bit(loc["poll1"].stword, ANC_STATUS_RUNNING) = 1
  /\ loc["poll1"].sets = 1
  /\ ax[<<1, 1>>].reference_search = 0
  /\ ax[<<1, 1>>].homed = 1 /\ ax[<<1, 1>>].done = 1

\* drvAnc350GetAxisStatus has just returned to its caller
CycleEnd(t) == pc[t] \in {"P_next", "C_next"} /\ loc[t].polled

\* C13 (as stated): a poll cycle that read a STATUS word with the hump bit
\* leaves the forward limit flag set and the backward one clear if the
\* last-known direction is forward, and the other way round otherwise, also
\* when the POSITION get of the cycle failed.
C13_Original ==
  (/\ CycleEnd("poll1")
   /\ loc["poll1"].humpstatus = MOTOR_AXIS_OK
   /\ Bit(loc["poll1"].stword, ANC_STATUS_HUMP) = 1)
  => IF ax[<<1, 1>>].previous_direction = 1
     THEN ax[<<1, 1>>].highLimit = 1 /\ ax[<<1, 1>>].lowLimit = 0
     ELSE ax[<<1, 1>>].highLimit = 0 /\ ax[<<1, 1>>].lowLimit = 1

\* C14 (as stated): the step of the poll cycle that follows a failed
\* AMPLITUDE get leaves the cached amplitude as it was.
C14_Original ==
  [][(/\ pc["poll1"] = "A_amp" /\ pc'["poll1"] # "A_amp"
      /\ loc["poll1"].ret # MOTOR_AXIS_OK)
     => ax'[<<1, 1>>].amplitude = ax[<<1, 1>>].amplitude]_vars

\* C15 (as stated): a poll cycle whose STATUS get failed leaves the forward
\* and backward limit flags as they were before the cycle.
C15_Original ==
  (CycleEnd("poll1") /\ loc["poll1"].humpstatus # MOTOR_AXIS_OK)
  => /\ ax[<<1, 1>>].highLimit = loc["poll1"].ax0.highLimit
     /\ ax[<<1, 1>>].lowLimit = loc["poll1"].ax0.lowLimit

\* C16: a poll cycle in which all four gets failed leaves done, homed, the
\* homing-in-progress flag, the position, the cached and the published
\* direction and the reference position as they were before the cycle.
C16_AllFailedFrame ==
  (CycleEnd("poll1") /\ loc["poll1"].cycleFails = 4)
  => \A f \in {"done", "homed", "homeSignal", "reference_search", "position",
               "previous_position", "previous_direction", "direction",
               "reference_position"} :
       ax[<<1, 1>>][f] = loc["poll1"].ax0[f]

C16_AllFailed ==
  /\ CycleEnd("poll1") /\ loc["poll1"].cycleFails = 4
  /\ loc["poll1"].ax0.position = DEADBAND + 1
  /\ loc["poll1"].ax0.direction = 1
  /\ ax[<<1, 1>>].position = DEADBAND + 1

\* the change of the position in the cycle that has just ended
Moved(t) == ax[<<1, 1>>].previous_position - loc[t].ax0.previous_position

\* C17: a poll cycle that read the position sets the direction to forward
\* if the position grew by more than 500, to backward if it fell by more
\* than 500, and leaves it at its cached value otherwise.
C17_Deadband ==
  (CycleEnd("poll1") /\ loc["poll1"].ret = MOTOR_AXIS_OK)
  => LET d == Moved("poll1")
         want == IF d > 500 THEN 1
                 ELSE IF d < -500 THEN 0
                 ELSE loc["poll1"].ax0.previous_direction IN
     /\ ax[<<1, 1>>].direction = want
     /\ ax[<<1, 1>>].previous_direction = want

C17_Flipped ==
  /\ CycleEnd("poll1") /\ loc["poll1"].ret = MOTOR_AXIS_OK
  /\ Moved("poll1") = -501
  /\ loc["poll1"].ax0.previous_direction = 1
  /\ ax[<<1, 1>>].direction = 0

\* C18 (as stated): a longin callback whose reads of the rest of the reply
\* are used up, the last of them having returned fewer than 24 bytes,
\* reports no match and leaves the value of the record as it was.
C18_Original ==
  (/\ pc["rec"] = "L_fin" /\ loc["rec"].kind = "li"
   /\ loc["rec"].asked > 0
   /\ loc["rec"].retries = LI_BODY_RETRIES
   /\ loc["rec"].nBytesRead # ACK_LENGTH)
  => /\ loc["rec"].match = 0
     /\ rec.udf = RecInit.udf /\ rec.val = RecInit.val

\* C19: after a write that transferred fewer bytes than asked the callback
\* reads nothing and records neither a value nor a success on the record.
C19_ShortWrite ==
  loc["rec"].wrote = "short"
  => /\ pc["rec"] \in {"L_fin", "idle"}
     /\ loc["rec"].retries = 0 /\ loc["rec"].asked = 0
     /\ loc["rec"].raw = <<>>
     /\ loc["rec"].match = 0
     /\ rec.udf = RecInit.udf /\ rec.val = RecInit.val

C19_Finished ==
  /\ loc["rec"].wrote = "short" /\ loc["rec"].kind = "li"
  /\ pc["rec"] = "idle" /\ rec.finished = 1 /\ rec.udf = 1

\* C20: once the length field was read, every read of the rest of the
\* reply asks the transport for 24 bytes, whatever length was declared.
C20_BodyLength ==
  /\ loc["rec"].asked \in {0, 24}
  /\ pc["rec"] = "L_body" => loc["rec"].tel[1] = 24

C20_OtherLength ==
  /\ loc["rec"].asked = 24
  /\ loc["rec"].ack # <<>> /\ loc["rec"].ack[1] = 2 * WORD
  /\ loc["rec"].nBytesRead = 24

\* thread t has accepted a reply all of which it had received: the callback
\* of a record after a read of the rest that returned as many bytes as it
\* asked for, motorAxisGet after a writeRead that returned the data word
Accepted(t) ==
  /\ loc[t].match = 1
  /\ IF t = "rec"
     THEN pc[t] \in {"L_while", "L_fin"} /\ loc[t].nBytesRead = loc[t].tel[1]
     ELSE pc[t] = "G_cnt" /\ loc[t].telData # Uninit

\* the bytes of the stream that reply took, the length field included
AckBytes(t) == IF t = "rec" THEN WORD + loc[t].nBytesRead ELSE loc[t].nBytesRead

\* C21 (as stated): a complete Ack accepted by the client occupies 24 bytes
\* of the stream in total, the length field included.
C21_Original == \A t \in {"rec", "poll1"} : Accepted(t) => AckBytes(t) = 24

\* C21: a complete Ack accepted by the client occupies 28 bytes of the
\* stream: the 4 bytes of the length field and the 24 bytes it announces
\* (four more header words, the reason word and one data word).
C21_AckSize ==
  \A t \in {"rec", "poll1"} :
    Accepted(t) => /\ AckBytes(t) = 28
                   /\ (t = "rec" => stream[t] = <<>> /\ Len(loc[t].ack) * WORD = 28)

C21_Accepted ==
  /\ Accepted("rec") /\ loc["rec"].kind = "li"
  /\ AckBytes("rec") = 28 /\ rec.val = 7

\* thread t has built a Set telegram and not yet written it
BuildingSet(t) == Building(t) /\ loc[t].req[2] = UC_SET

\* C22 (as stated): every Set telegram that is written has, after the five
\* header words, the value and then one constant trailing word.
C22_Original ==
  \A t \in Threads :
    BuildingSet(t) => /\ Len(loc[t].req) = HDR_WORDS + 2
                      /\ loc[t].req[HDR_WORDS + 1] = loc[t].setval
                      /\ loc[t].req[HDR_WORDS + 2] = STRAY_WORD

\* the threads that run the motor driver's motorAxisGet and motorAxisSet
DriverThreads == {"poll1", "cmd"}

OwnAck(t) ==
  /\ loc[t].ack # <<>> /\ loc[t].ack[CORR_WORD] = loc[t].localMid
  /\ IF t = "rec"
     THEN pc[t] = "L_fin" /\ loc[t].nBytesRead = ACK_LENGTH
     ELSE pc[t] = "G_cnt" /\ loc[t].nBytesRead = GET_READ_MAX

\* C25: a get or set that has received the Ack of its request succeeds and
\* a get delivers the first data word of that Ack, whatever the reason
\* field of the Ack holds.
C25_ReasonIgnored ==
  /\ OwnAck("poll1") => /\ loc["poll1"].match = 1
                         /\ loc["poll1"].status = asynSuccess
                         /\ loc["poll1"].value = loc["poll1"].ack[DATA_WORD]
  /\ OwnAck("rec") => /\ loc["rec"].match = 1 /\ rec.udf = 0
                       /\ (loc["rec"].kind = "li" => rec.val = loc["rec"].ack[DATA_WORD])
                       /\ (loc["rec"].kind = "lo" => rec.val = RecInit.val)

C25_Denied ==
  /\ OwnAck("rec") /\ loc["rec"].kind = "li"
  /\ loc["rec"].ack[6] = 99 /\ rec.val = 7 /\ rec.udf = 0

\* a command of the motor record's thread returns to its caller
CommandReturns == pc["cmd"] # "idle" /\ pc'["cmd"] = "idle"

\* the poller's wait takes the wake event of its controller
EventTaken(c) == pollEvent[c] /\ ~pollEvent'[c]

\* C26: every move, home, jog or stop has signalled the wake event of the
\* controller when it returns, wherever the poller is; the event stays
\* signalled until the poller's wait takes it, that wait returns
\* epicsEventWaitOK, and in the cycle that follows every axis of the
\* controller goes into drvAnc350GetAxisStatus, whatever its done flag and
\* skip counter.
C26_Signal ==
  CommandReturns => pollEvent'[loc["cmd"].axis[1]]

C26_Wait ==
  \A c \in Controllers :
    EventTaken(c) => /\ pc[PollerOf(c)] = "P_wait"
                     /\ loc'[PollerOf(c)].eventStatus = "epicsEventWaitOK"

C26_Cycle ==
  \A t \in Pollers :
    LET l == loc[t] IN
    /\ (pc[t] = "P_axis" /\ pc'[t] # "P_axis" /\ l.i <= nAxes[CardOf(t)]
          /\ l.eventStatus = "epicsEventWaitOK") => pc'[t] = "A_lock"
    /\ (pc[t] # "P_wait" /\ l.phase = "task") => loc'[t].eventStatus = l.eventStatus
    /\ (pc[t] = "P_next" /\ pc'[t] # "P_next") => loc'[t].i = l.i + 1
    /\ (pc[t] = "P_wait" /\ pc'[t] # "P_wait") => loc'[t].i = 1

C26_WakeForcesPoll ==
  [][C26_Signal /\ C26_Wait /\ C26_Cycle]_vars

\* after a wake-up the second axis, stopped and not yet due for an idle
\* poll, is polled all the same
C26_Woken ==
  /\ pc["poll1"] = "A_lock" /\ loc["poll1"].phase = "task"
  /\ loc["poll1"].eventStatus = "epicsEventWaitOK" /\ loc["poll1"].i = 2
  /\ ax[<<1, 2>>].done = 1 /\ skips[<<1, 2>>] > 0

\* the creation of the controller of card c failed to connect or to set up
\* an axis
SetupFailed(c) == loc[PollerOf(c)].setup \in {"noconnect", "noaxis"}

\* C28: when the connect or the set-up of an axis fails in
\* anc350AsynMotorCreate, the call has returned MOTOR_AXIS_ERROR, the
\* controller is not in the list, no axis of it is polled (its thread of
\* control never enters the polls, no request is built, its axes are as
\* they were allocated) and no poller thread runs for it.
C28_FailedCreate ==
  \A c \in Controllers :
    LET t == PollerOf(c) IN
    SetupFailed(c) =>
      /\ pc[t] = "C_failed" /\ loc[t].ret = MOTOR_AXIS_ERROR
      /\ FindCard(pFirstDrv, c) = 0
      /\ loc[t].phase = "failed"
      /\ loc[t].exch = 0 /\ loc[t].req = <<>> /\ stream[t] = <<>>
      /\ \A a \in Axes : a[1] = c => ax[a] = AxisInit /\ skips[a] = 0

\* the first controller could not set up an axis, the second is created
\* and polled by its thread
C28_OneFailed ==
  /\ loc["poll1"].setup = "noaxis" /\ pc["poll1"] = "C_failed"
  /\ pFirstDrv = <<2>> /\ Created(2) /\ pc["poll2"] = "G_io"

\* the id the N-th of the allocations made from a fresh counter yields
NthId(n) == IF n <= MID_MAX THEN n ELSE n - MID_MAX

\* C29: from a fresh counter the N-th sequential allocation yields N for
\* every N up to 10000, and the allocation after the 10000th yields 1; so
\* for the counter of the motor driver and for that of the device support.
C29_Sequence ==
  /\ mid # 0 => mid = NthId(nOps) /\ loc["cmd"].localMid = mid
  /\ devMid # 0 => devMid = NthId(nOps) /\ loc["rec"].localMid = devMid

\* the allocation after the 10000th has yielded 1
C29_AfterLast ==
  nOps = MID_MAX + 1 /\ mid = 1 /\ loc["cmd"].localMid = 1

\* the thread that holds pDrv->controllerMutexId of card c: drvAnc350Task
\* takes and releases it around the reading of its poll periods, within its
\* step at P_wait, and no other code takes it
ControllerMutexHolder(c) == Free

\* thread t reads or writes comms in this step
TouchesComms(t) == pc[t] \in {"G_chk", "G_cnt"} /\ pc'[t] # pc[t]

\* C30 (as stated): a thread that reads or writes the consecutive-failure
\* counter holds the lock of its controller, and every failed get leaves
\* the counter one higher than it was, every successful one at 0.
C30_Locked ==
  \A t \in Pollers : TouchesComms(t) => ControllerMutexHolder(CardOf(t)) = t

C30_NoLostUpdate ==
  \A t \in Pollers :
    (pc[t] = "G_cnt" /\ pc'[t] # "G_cnt") =>
      comms' = (IF loc[t].status # asynSuccess THEN comms + 1 ELSE 0)

C30_EveryUpdateCounts == [][C30_NoLostUpdate]_vars

C30_Original == [][C30_Locked /\ C30_NoLostUpdate]_vars

\* the poller enters drvAnc350GetAxisStatus for axis a in its loop
Polling(a) ==
  /\ pc[PollerOf(a[1])] = "A_lock" /\ loc[PollerOf(a[1])].phase = "task"
  /\ loc[PollerOf(a[1])].i = a[2]

\* C27: whatever number of gets has failed, also with the comm-error flag
\* raised, the loop of the poller goes on and each axis is polled again
\* and again.
C27_PollsForever ==
  \A a \in {<<1, 1>>, <<1, 2>>} : []<>Polling(a)

\* more than 200 gets in a row have failed, the comm-error flag of both
\* axes is raised and the poller polls the second axis once more
C27_StillPolling ==
  /\ Polling(<<1, 2>>) /\ comms > COMMS_LIMIT
  /\ ax[<<1, 1>>].commError = 1 /\ ax[<<1, 2>>].commError = 1

\* the poller decides in this step, in a cycle whose wait timed out,
\* whether it polls axis number i of its controller
DecidesAfterTimeout(t, i) ==
  /\ pc[t] = "P_axis" /\ pc'[t] # "P_axis"
  /\ loc[t].i = i /\ i <= nAxes[CardOf(t)]
  /\ loc[t].eventStatus = "epicsEventWaitTimeout"

\* C31: in a cycle that ends by timeout an axis whose cached done flag is 0
\* is polled; one whose done flag is 1 is polled if and only if the cycle
\* before did not poll it, that is in every second cycle (idlePollPeriod /
\* movingPollPeriod = 2), the first cycle of the task included.
C31_Step ==
  \A t \in Pollers, i \in AxisNos :
    DecidesAfterTimeout(t, i) =>
      LET a == <<CardOf(t), i>>
          polls == pc'[t] = "A_lock" IN
      /\ ax[a].done = 0 => polls
      /\ ax[a].done = 1 => (polls <=> loc[t].prev[i] # "polled")
      /\ ~polls => pc'[t] = "P_next"

C31_IdlePolls == [][C31_Step]_vars

\* the second axis is stopped, was left out in the cycle before and is
\* polled in this one, in which the running first axis was polled again
C31_SecondCycle ==
  /\ pc["poll1"] = "A_lock" /\ loc["poll1"].phase = "task"
  /\ loc["poll1"].eventStatus = "epicsEventWaitTimeout"
  /\ loc["poll1"].i = 2 /\ loc["poll1"].prev = <<"polled", "skipped">>
  /\ ax[<<1, 1>>].done = 0 /\ ax[<<1, 2>>].done = 1

\* sequence g is the beginning of sequence h
IsPrefix(g, h) == Len(g) <= Len(h) /\ \A k \in 1 .. Len(g) : g[k] = h[k]

\* C32: a poll of an axis calls motorAxisGet for STATUS, AMPLITUDE,
\* REFERENCE_POSITION and POSITION, in this order and once each, whether
\* the earlier gets failed or not, and holds the lock of the axis from the
\* first call until the last has returned.
C32_PollOrder ==
  \A t \in Pollers :
    LET l == loc[t]
        all == <<ID_ANC_STATUS, ID_ANC_AMPL, ID_ANC_REFCOUNTER, ID_ANC_COUNTER>> IN
    /\ IsPrefix(l.gets, all)
    /\ CycleEnd(t) => l.gets = all
    /\ (l.gets # <<>> /\ ~CycleEnd(t)) =>
         /\ axisMutex[<<CardOf(t), l.i>>] = t
         /\ l.location \in {l.gets[Len(l.gets)], ID_ANC_SGL_FWD}
    /\ (pc[t] = "G_io" /\ l.phase = "task") =>
         /\ l.gets # <<>> /\ l.req[1 + 1 + 1] = l.gets[Len(l.gets)]
         /\ l.exch = 0

\* a poll has made its four gets although the first three failed
C32_AllFour ==
  /\ CycleEnd("poll1") /\ loc["poll1"].phase = "task"
  /\ loc["poll1"].gets = <<ID_ANC_STATUS, ID_ANC_AMPL, ID_ANC_REFCOUNTER, ID_ANC_COUNTER>>
  /\ loc["poll1"].cycleFails = 1 + 1 + 1 /\ loc["poll1"].ret = MOTOR_AXIS_OK

\* C33: a record-level get or set calls flushIt at most once, writeIt at
\* most once, readIt for the length at most once and readIt for the rest
\* at most 3 times (get) or once (set); the processing of the record is
\* finished exactly once, when the callback returns and not before.
C33_Bounded ==
  LET l == loc["rec"] IN
  /\ l.flushes <= 1 /\ l.exch <= 1 /\ l.lenReads <= 1
  /\ l.bodyReads <= (IF l.kind = "li" THEN 1 + 1 + 1 ELSE 1)
  /\ rec.finished = (IF pc["rec"] = "idle" /\ l.kind # "none" THEN 1 ELSE 0)

\* a longin is finished undefined after its third read of the rest
C33_ThreeReads ==
  /\ pc["rec"] = "idle" /\ rec.finished = 1 /\ rec.udf = 1
  /\ loc["rec"].kind = "li" /\ loc["rec"].bodyReads = 1 + 1 + 1
  /\ loc["rec"].lenReads = 1 /\ loc["rec"].flushes = 1

\* the poller is performing a homing completion on axis a: it has cleared
\* the homing flag and has not yet forced homed and done
Completing(a) ==
  \E t \in Pollers :
    /\ loc[t].rpc = "A_st2" /\ loc[t].phase = "task"
    /\ loc[t].axis = a
    /\ pc[t] \in {"S_lock", "S_inc", "S_io", "A_st2"}

\* a homing completion on axis a is due or under way
HomingPending(a) == ax[a].reference_search = 1 \/ Completing(a)

\* motorAxisStop on axis a has returned and no other command has started
StopReturned(a) ==
  pc["cmd"] = "idle" /\ loc["cmd"].kind = "stop" /\ loc["cmd"].axis = a

\* motorAxisHome on axis a is in progress
Homing(a) ==
  pc["cmd"] # "idle" /\ loc["cmd"].kind = "home" /\ loc["cmd"].axis = a

C34_AtReturn == \A a \in UsedAxes : StopReturned(a) => ~HomingPending(a)

C34_Step ==
  \A a \in UsedAxes :
    (~HomingPending(a) /\ HomingPending(a)') => Homing(a)

\* C34: when motorAxisStop on an axis has returned, no homing completion on
\* that axis is due or under way, whatever the poller was doing while the
\* stop ran, and none becomes due unless motorAxisHome runs on the axis.
C34_StopCancelsHoming == [](C34_AtReturn) /\ [][C34_Step]_vars

\* the stop has returned in a cycle in which the poller completed the homing
C34_StoppedAfterCompletion ==
  /\ StopReturned(<<1, 1>>)
  /\ CycleEnd("poll1") /\ loc["poll1"].phase = "task" /\ loc["poll1"].sets = 1
  /\ ax[<<1, 1>>].homed = 1 /\ ax[<<1, 1>>].reference_search = 0

\* motorAxisMove is about to return loc[t].cstatus
MoveReturns(t) == pc[t] = "M_sig" /\ loc[t].kind \in {"move", "rmove"}

\* C36 (as stated): motorAxisMove returns an error when one of its four set
\* commands (hump detection, amplitude-control mode, TARGET, run command)
\* failed to be written, and success only when all four succeeded.
C36_Original ==
  MoveReturns("cmd") =>
    (loc["cmd"].cstatus = MOTOR_AXIS_OK <=> loc["cmd"].setFails = 0)

C37_Step ==
  (pc["cmd"] = "M_2" /\ pc'["cmd"] = "M_lock") =>
    loc'["cmd"].target =
      IF loc["cmd"].kind = "rmove" THEN loc["cmd"].target
      ELSE loc["cmd"].target + ax[loc["cmd"].axis].reference_position

\* C37 (as stated): the value motorAxisMove writes to TARGET is the
\* requested distance for a relative move and the requested position plus
\* the cached reference position for an absolute move.
C37_Original == [][C37_Step]_vars

\* C38: whatever polls and motion commands have run, no axis has its
\* forward and its backward hard-limit flag set together.
C38_OneLimit ==
  \A a \in UsedAxes : ~(ax[a].highLimit = 1 /\ ax[a].lowLimit = 1)

\* a poll has found the hump with the direction reversed: it has replaced
\* the forward limit by the backward limit
C38_LimitSwapped ==
  /\ CycleEnd("poll1") /\ loc["poll1"].phase = "task"
  /\ loc["poll1"].ax0.highLimit = 1 /\ loc["poll1"].ax0.lowLimit = 0
  /\ ax[<<1, 1>>].highLimit = 0 /\ ax[<<1, 1>>].lowLimit = 1

\* no two controllers of the list have the same card
C39_Distinct ==
  \A j, k \in 1 .. Len(pFirstDrv) : pFirstDrv[j] = pFirstDrv[k] => j = k

\* a step in which anc350AsynMotorCreate ran for a card that exists
C39_Step ==
  (nOps' = nOps + 1 /\ loc'["cmd"].kind = "create" /\ pc["cmd"] = "idle"
   /\ pc' = pc)
  => /\ loc'["cmd"].ret = MOTOR_AXIS_ERROR
     /\ pFirstDrv' = pFirstDrv
     /\ ax' = ax /\ nAxes' = nAxes /\ axisMutex' = axisMutex
     /\ pollEvent' = pollEvent /\ skips' = skips
     /\ \A p \in Pollers : loc'[p] = loc[p]

\* C39: whatever creations were called, the cards of the controllers in the
\* list are distinct; a creation for a card that is in the list returns
\* MOTOR_AXIS_ERROR and changes neither the list nor the controller.
C39_OneControllerPerCard == [](C39_Distinct) /\ [][C39_Step]_vars

\* both controllers are in the list and a repeated creation for the second
\* has returned an error
C39_Refused ==
  /\ pFirstDrv = <<1, 1 + 1>>
  /\ loc["cmd"].kind = "create" /\ loc["cmd"].target = 1 + 1
  /\ loc["cmd"].ret = MOTOR_AXIS_ERROR

\* the axis whose lock thread t asks for, or holds, in its current call
AxisAt(t) == IF t \in Pollers THEN <<CardOf(t), loc[t].i>> ELSE loc[t].axis

\* thread t is at epicsMutexLock( pAxis->axisMutex )
RequestsAxis(t) ==
  pc[t] \in {"M_lock", "H_2", "J_2", "T_lock", "I_lock", "A_lock"}

\* thread t is at epicsMutexLock(midMutexId)
RequestsId(t) == pc[t] \in {"S_lock", "G_lock"}

\* the thread that holds the lock thread t is blocked at, "none" if t is
\* not blocked
WaitsFor(t) ==
  IF RequestsAxis(t) /\ axisMutex[AxisAt(t)] # Free THEN axisMutex[AxisAt(t)]
  ELSE IF RequestsId(t) /\ midMutex # Free THEN midMutex
  ELSE "none"

C35_Order ==
  \A t \in Threads :
    \* the id lock is the innermost: its holder asks for no lock
    /\ midMutex = t => pc[t] \in {"S_inc", "G_inc"}
    \* a thread that asks for an axis lock holds no lock
    /\ RequestsAxis(t) => midMutex # t /\ \A a \in Axes : axisMutex[a] # t
    /\ Cardinality({a \in Axes : axisMutex[a] = t}) <= 1
    \* the controller lock is not held when a lock is asked for
    /\ (RequestsAxis(t) \/ RequestsId(t)) =>
          \A c \in Controllers : ControllerMutexHolder(c) # t

C35_NoCycle ==
  \A t \in Threads :
    LET u == WaitsFor(t) IN
    u # "none" =>
      /\ WaitsFor(u) # t
      /\ WaitsFor(u) # "none" => WaitsFor(WaitsFor(u)) = "none"

\* C35: pollers, motion commands and id allocations never block each other
\* for ever: a thread takes the id lock holding at most the lock of one
\* axis, asks for no lock while it holds the id lock, and no thread waits
\* for a lock whose holder waits, directly or through a third, for it.
C35_NoDeadlock == C35_Order /\ C35_NoCycle

\* the poller holds the lock of axis 1 and, inside it, the id lock, while
\* a motion command waits for the lock of the axis
C35_Nested ==
  /\ axisMutex[<<1, 1>>] = "poll1" /\ midMutex = "poll1"
  /\ loc["poll1"].phase = "task"
  /\ WaitsFor("cmd") = "poll1" /\ RequestsAxis("cmd")

=============================================================================
